---- MODULE Spec2Model ----
(***************************************************************************)
(* A model of the personal-data bot: the SQLite-backed UserStorage          *)
(* (src/storage.py) and the auto-categorization engine of CommandHandler    *)
(* (src/commands.py).                                                       *)
(*                                                                          *)
(* A Python string is a sequence of one-character strings, so that strip,   *)
(* the removal of characters, splitting and the regular expressions are     *)
(* computed as the code computes them.                                      *)
(***************************************************************************)
EXTENDS Integers, Sequences, FiniteSets, TLC

VARIABLES
    db,        \* the database: one set of rows per table, and sqlite_sequence
    now,       \* the wall clock, in seconds (CURRENT_TIMESTAMP, datetime('now'))
    last,      \* the most recent call: its operation and its arguments
    latest,    \* per table and (user_id, label): the values of the latest write
    calls,     \* number of calls made so far
    ticks,     \* number of clock advances so far
    procs,     \* the concurrent store_* coroutines: position and locals
    lock,      \* the connection that holds SQLite's write lock (0: none)
    findings,  \* the findings of the most recent categorize call
    out,       \* the text in hand: an input, then what _clean_text_content
               \* returned; or the password shown by the last command's reply
    user_message_times
               \* per user: the times of the messages the rate limiter let
               \* through in the last minute, oldest first

vars == <<db, now, last, latest, calls, ticks, procs, lock, findings, out, user_message_times>>

----------------------------------------------------------------------------
(* Strings *)

Rep(c, n) == [i \in 1..n |-> c]

Whitespace == {" ", "\n", "\t"}

Lowers == <<"a","b","c","d","e","f","g","h","i","j","k","l","m",
            "n","o","p","q","r","s","t","u","v","w","x","y","z">>

Uppers == <<"A","B","C","D","E","F","G","H","I","J","K","L","M",
            "N","O","P","Q","R","S","T","U","V","W","X","Y","Z">>

LowerSet == {Lowers[i] : i \in 1..26}

UpperSet == {Uppers[i] : i \in 1..26}

DigitSet == {"0","1","2","3","4","5","6","7","8","9"}

LetterSet == LowerSet \cup UpperSet

\* Python's None, where an optional column holds no string
None == <<"None">>

\* str.strip(): leading and trailing whitespace removed
strip(s) ==
    IF \A i \in 1..Len(s) : s[i] \in Whitespace THEN <<>>
    ELSE LET lo == CHOOSE i \in 1..Len(s) :
                       s[i] \notin Whitespace /\ \A j \in 1..(i-1) : s[j] \in Whitespace
             hi == CHOOSE i \in 1..Len(s) :
                       s[i] \notin Whitespace
                       /\ \A j \in (i+1)..Len(s) : s[j] \in Whitespace
         IN  SubSeq(s, lo, hi)

WordChars == LetterSet \cup DigitSet \cup {"_"}

lower_char(c) ==
    IF c \in UpperSet THEN Lowers[CHOOSE i \in 1..26 : Uppers[i] = c] ELSE c

upper_char(c) ==
    IF c \in LowerSet THEN Uppers[CHOOSE i \in 1..26 : Lowers[i] = c] ELSE c

\* str.lower()
lower(s) == [i \in 1..Len(s) |-> lower_char(s[i])]

\* str.title(): a letter is upper-cased unless a letter precedes it
title(s) ==
    [i \in 1..Len(s) |->
        IF i > 1 /\ s[i-1] \in LetterSet THEN lower_char(s[i]) ELSE upper_char(s[i])]

\* sub in s
Contains(s, sub) ==
    \E i \in 1..(Len(s) - Len(sub) + 1) : SubSeq(s, i, i + Len(sub) - 1) = sub

\* any(x in s for x in subs)
ContainsAny(s, subs) == \E x \in subs : Contains(s, x)

\* s.startswith(p) at position i (1-based)
StartsAt(s, i, p) == i + Len(p) - 1 <= Len(s) /\ SubSeq(s, i, i + Len(p) - 1) = p

\* the k-th smallest element of a set of numbers
Nth(S, k) == CHOOSE x \in S : Cardinality({y \in S : y < x}) = k - 1

\* the end of the longest run of characters of `chars` that starts at i
\* (i - 1 if s[i] is not in chars)
RunEnd(s, i, chars) ==
    IF i > Len(s) \/ s[i] \notin chars THEN i - 1
    ELSE CHOOSE j \in i..Len(s) :
            /\ \A k \in i..j : s[k] \in chars
            /\ j = Len(s) \/ s[j+1] \notin chars

\* the end of the longest run of characters outside `chars` that starts at i
RunEndNot(s, i, chars) ==
    IF i > Len(s) \/ s[i] \in chars THEN i - 1
    ELSE CHOOSE j \in i..Len(s) :
            /\ \A k \in i..j : s[k] \notin chars
            /\ j = Len(s) \/ s[j+1] \in chars

\* str.split(): the maximal runs of non-whitespace characters
split(s) ==
    LET starts == {i \in 1..Len(s) :
                     s[i] \notin Whitespace /\ (i = 1 \/ s[i-1] \in Whitespace)}
    IN  [k \in 1..Cardinality(starts) |->
            LET i == Nth(starts, k) IN SubSeq(s, i, RunEndNot(s, i, Whitespace))]

\* str.split(c): the pieces between the occurrences of the character c
split_on(s, c) ==
    LET seps == {i \in 1..Len(s) : s[i] = c}
        n == Cardinality(seps)
    IN  [k \in 1..(n + 1) |->
            SubSeq(s, IF k = 1 THEN 1 ELSE Nth(seps, k - 1) + 1,
                      IF k = n + 1 THEN Len(s) ELSE Nth(seps, k) - 1)]

RECURSIVE join(_, _)
\* sep.join(parts)
join(parts, sep) ==
    IF Len(parts) = 0 THEN <<>>
    ELSE IF Len(parts) = 1 THEN parts[1]
    ELSE parts[1] \o sep \o join(Tail(parts), sep)

RECURSIVE concat(_)
\* the concatenation of a sequence of sequences
concat(seqs) == IF Len(seqs) = 0 THEN <<>> ELSE seqs[1] \o concat(Tail(seqs))

RECURSIVE replace(_, _, _)
\* str.replace(old, new), old not empty
replace(s, old, new) ==
    IF Len(s) < Len(old) THEN s
    ELSE IF StartsAt(s, 1, old)
         THEN new \o replace(SubSeq(s, Len(old) + 1, Len(s)), old, new)
         ELSE <<s[1]>> \o replace(Tail(s), old, new)

\* str.strip(chars)
strip_chars(s, chars) ==
    IF \A i \in 1..Len(s) : s[i] \in chars THEN <<>>
    ELSE SubSeq(s, RunEnd(s, 1, chars) + 1,
                CHOOSE j \in 1..Len(s) :
                    s[j] \notin chars /\ \A k \in (j+1)..Len(s) : s[k] \in chars)

----------------------------------------------------------------------------
(* UserStorage: validation *)

MAX_CONTENT_LENGTH == 10000
MAX_LABEL_LENGTH == 200
MAX_USERNAME_LENGTH == 200
MAX_PASSWORD_LENGTH == 500
MAX_EMAIL_LENGTH == 320
MAX_URL_LENGTH == 2000
MAX_TYPE_LENGTH == 50

\* The validators return [ok, val]: ok is FALSE where the code raises ValueError.
Invalid == [ok |-> FALSE, val |-> <<>>]

InjectionChars == {";", "'", "\"", "\\"}

\* re.sub(r'[;\'"\\]', '', content)
remove_injection(content) == SelectSeq(content, LAMBDA c : c \notin InjectionChars)

_validate_user_id(user_id) ==
    IF user_id = 0 THEN Invalid ELSE [ok |-> TRUE, val |-> user_id]

\* Mutant: the length of the content is not checked.
_validate_content_any_length(content, max_length) ==
    IF content = None \/ content = <<>> THEN Invalid
    ELSE [ok |-> TRUE, val |-> remove_injection(strip(content))]

_validate_content(content, max_length) ==
    IF content = None \/ content = <<>> THEN Invalid
    ELSE LET stripped == strip(content)
         IN  IF Len(stripped) > max_length THEN Invalid
             ELSE [ok |-> TRUE, val |-> remove_injection(stripped)]

_validate_label(label) == _validate_content(label, MAX_LABEL_LENGTH)

_validate_username(username) == _validate_content(username, MAX_USERNAME_LENGTH)

_validate_password(password) == _validate_content(password, MAX_PASSWORD_LENGTH)

EmailLocalSet == LetterSet \cup DigitSet \cup {".", "_", "%", "+", "-"}

EmailDomainSet == LetterSet \cup DigitSet \cup {".", "-"}

\* the end of the text for '$': the end, or just before a final line break
DollarEnds(s) ==
    {Len(s)} \cup (IF Len(s) > 0 /\ s[Len(s)] = "\n" THEN {Len(s) - 1} ELSE {})

\* re.match(r'^[a-zA-Z0-9._%+-]+@[a-zA-Z0-9.-]+\.[a-zA-Z]{2,}$', email)
email_format(email) ==
    \E e \in DollarEnds(email) : \E a \in 2..e :
        /\ email[a] = "@"
        /\ \A i \in 1..(a-1) : email[i] \in EmailLocalSet
        /\ \E d \in (a+2)..(e-2) :
            /\ email[d] = "."
            /\ \A i \in (a+1)..(d-1) : email[i] \in EmailDomainSet
            /\ \A i \in (d+1)..e : email[i] \in LetterSet

_validate_email(email) ==
    LET v == _validate_content(email, MAX_EMAIL_LENGTH)
    IN  IF v.ok /\ email_format(v.val) THEN v ELSE Invalid

HasPrefix(s, p) == Len(s) >= Len(p) /\ SubSeq(s, 1, Len(p)) = p

\* re.match(r'^https?://[^\s/$.?#].[^\s]*$', url)
url_format(url) ==
    \E k \in {7, 8} :
        /\ HasPrefix(url, IF k = 7 THEN <<"h","t","t","p",":","/","/">>
                                   ELSE <<"h","t","t","p","s",":","/","/">>)
        /\ \E e \in DollarEnds(url) :
            /\ e >= k + 2
            /\ url[k+1] \notin Whitespace \cup {"/", "$", ".", "?", "#"}
            /\ url[k+2] # "\n"
            /\ \A i \in (k+3)..e : url[i] \notin Whitespace

_validate_url(url) ==
    LET v == _validate_content(url, MAX_URL_LENGTH)
    IN  IF v.ok /\ url_format(v.val) THEN v ELSE Invalid

----------------------------------------------------------------------------
(* UserStorage: the tables *)

Tables == {"user_messages", "user_passwords", "user_credentials",
           "user_notes", "user_emails", "user_links"}

\* UserStorage.initialize on a fresh file: six empty tables
EmptyDb == [user_messages |-> {}, user_passwords |-> {}, user_credentials |-> {},
            user_notes |-> {}, user_emails |-> {}, user_links |-> {},
            sqlite_sequence |-> [t \in Tables |-> 0]]

\* INSERT INTO t ...: the row gets the next AUTOINCREMENT id and CURRENT_TIMESTAMP
Insert(d, t, row, time) ==
    LET id == d.sqlite_sequence[t] + 1
        full == row @@ [id |-> id, timestamp |-> time]
    IN  [d EXCEPT ![t] = @ \cup {full}, !.sqlite_sequence[t] = id]

\* Mutant: the table without UNIQUE(user_id, label), so nothing is replaced.
InsertOrReplace_no_unique(d, t, row, time) == Insert(d, t, row, time)

\* INSERT OR REPLACE INTO t ... under UNIQUE(user_id, label): the rows that
\* conflict with the new one are deleted, then the row is inserted
InsertOrReplace(d, t, row, time) ==
    LET kept == {r \in d[t] : ~(r.user_id = row.user_id /\ r.label = row.label)}
    IN  Insert([d EXCEPT ![t] = kept], t, row, time)

----------------------------------------------------------------------------
(* UserStorage: the operations, each a function of the database *)

HOUR == 3600

\* SELECT id FROM user_passwords WHERE user_id = ? AND label = ? AND password = ?
select_password(d, u, l, p) ==
    {r \in d.user_passwords : r.user_id = u /\ r.label = l /\ r.password = p}

write_password(d, time, u, l, p) ==
    InsertOrReplace(d, "user_passwords",
                    [user_id |-> u, label |-> l, password |-> p], time)

store_password(d, time, user_id, label, password) ==
    LET u == _validate_user_id(user_id)
        l == _validate_label(label)
        p == _validate_password(password)
    IN  IF ~(u.ok /\ l.ok /\ p.ok) THEN d
        ELSE IF select_password(d, u.val, l.val, p.val) # {} THEN d
        ELSE write_password(d, time, u.val, l.val, p.val)

\* SELECT id FROM user_credentials WHERE user_id = ? AND label = ?
\*                                   AND username = ? AND password = ?
select_credential(d, u, l, n, p) ==
    {r \in d.user_credentials :
        r.user_id = u /\ r.label = l /\ r.username = n /\ r.password = p}

write_credential(d, time, u, l, n, p) ==
    InsertOrReplace(d, "user_credentials",
                    [user_id |-> u, label |-> l, username |-> n, password |-> p], time)

\* Mutant: the write is issued without the check for an identical row.
store_credential_unchecked(d, time, user_id, label, username, password) ==
    LET u == _validate_user_id(user_id)
        l == _validate_label(label)
        n == _validate_username(username)
        p == _validate_password(password)
    IN  IF ~(u.ok /\ l.ok /\ n.ok /\ p.ok) THEN d
        ELSE write_credential(d, time, u.val, l.val, n.val, p.val)

store_credential(d, time, user_id, label, username, password) ==
    LET u == _validate_user_id(user_id)
        l == _validate_label(label)
        n == _validate_username(username)
        p == _validate_password(password)
    IN  IF ~(u.ok /\ l.ok /\ n.ok /\ p.ok) THEN d
        ELSE IF select_credential(d, u.val, l.val, n.val, p.val) # {} THEN d
        ELSE write_credential(d, time, u.val, l.val, n.val, p.val)

\* Mutant: the duplicate check without the one-hour window.
select_note_any_age(d, time, u, note) ==
    {r \in d.user_notes : r.user_id = u /\ r.note = note}

\* SELECT id FROM user_notes WHERE user_id = ? AND note = ?
\*                             AND timestamp > datetime('now', '-1 hour')
select_note(d, time, u, note) ==
    {r \in d.user_notes :
        r.user_id = u /\ r.note = note /\ r.timestamp > time - HOUR}

write_note(d, time, u, note) ==
    Insert(d, "user_notes", [user_id |-> u, note |-> note], time)

store_note(d, time, user_id, note) ==
    LET u == _validate_user_id(user_id)
        n == _validate_content(note, MAX_CONTENT_LENGTH)
    IN  IF ~(u.ok /\ n.ok) THEN d
        ELSE IF select_note(d, time, u.val, n.val) # {} THEN d
        ELSE write_note(d, time, u.val, n.val)

\* SELECT id FROM user_emails WHERE user_id = ? AND email = ?
select_email(d, u, email) ==
    {r \in d.user_emails : r.user_id = u /\ r.email = email}

write_email(d, time, u, email, label) ==
    Insert(d, "user_emails", [user_id |-> u, email |-> email, label |-> label], time)

\* Mutant: the insert is issued without the check for the address.
store_email_unchecked(d, time, user_id, email, label) ==
    LET u == _validate_user_id(user_id)
        e == _validate_email(email)
        l == IF label = None THEN [ok |-> TRUE, val |-> None]
                             ELSE _validate_label(label)
    IN  IF ~(u.ok /\ e.ok /\ l.ok) THEN d
        ELSE write_email(d, time, u.val, e.val, l.val)

store_email(d, time, user_id, email, label) ==
    LET u == _validate_user_id(user_id)
        e == _validate_email(email)
        l == IF label = None THEN [ok |-> TRUE, val |-> None]
                             ELSE _validate_label(label)
    IN  IF ~(u.ok /\ e.ok /\ l.ok) THEN d
        ELSE IF select_email(d, u.val, e.val) # {} THEN d
        ELSE write_email(d, time, u.val, e.val, l.val)

\* SELECT id FROM user_links WHERE user_id = ? AND url = ?
select_link(d, u, url) ==
    {r \in d.user_links : r.user_id = u /\ r.url = url}

write_link(d, time, u, url, link_type) ==
    Insert(d, "user_links", [user_id |-> u, url |-> url, link_type |-> link_type], time)

store_link(d, time, user_id, url, link_type) ==
    LET u == _validate_user_id(user_id)
        l == _validate_url(url)
        t == IF link_type = None THEN [ok |-> TRUE, val |-> None]
                                 ELSE _validate_content(link_type, MAX_TYPE_LENGTH)
    IN  IF ~(u.ok /\ l.ok /\ t.ok) THEN d
        ELSE IF select_link(d, u.val, l.val) # {} THEN d
        ELSE write_link(d, time, u.val, l.val, t.val)

store_message(d, time, user_id, content, message_type) ==
    LET u == _validate_user_id(user_id)
        c == _validate_content(content, MAX_CONTENT_LENGTH)
        t == _validate_content(message_type, MAX_TYPE_LENGTH)
    IN  IF ~(u.ok /\ c.ok /\ t.ok) THEN d
        ELSE Insert(d, "user_messages",
                    [user_id |-> u.val, content |-> c.val, message_type |-> t.val], time)

\* Mutant: the DELETE without its WHERE clause.
clear_user_data_all_users(d, user_id) ==
    [t \in DOMAIN d |-> IF t \in Tables THEN {} ELSE d[t]]

\* DELETE FROM <table> WHERE user_id = ?, for each of the six tables
clear_user_data(d, user_id) ==
    [t \in DOMAIN d |->
        IF t \in Tables THEN {r \in d[t] : r.user_id # user_id} ELSE d[t]]

MaxId(rows) == CHOOSE i \in {r.id : r \in rows} : \A r \in rows : r.id <= i

\* DELETE FROM t WHERE user_id = ? AND id NOT IN
\*   (SELECT MAX(id) FROM t WHERE user_id = ? GROUP BY <columns>)
KeepLatest(rows, user_id, columns) ==
    {r \in rows :
        r.user_id # user_id
        \/ r.id = MaxId({q \in rows : q.user_id = user_id
                                       /\ \A c \in columns : q[c] = r[c]})}

clear_duplicates(d, user_id) ==
    [d EXCEPT
        !.user_credentials = KeepLatest(@, user_id, {"label", "username", "password"}),
        !.user_passwords = KeepLatest(@, user_id, {"label", "password"}),
        !.user_emails = KeepLatest(@, user_id, {"email"}),
        !.user_links = KeepLatest(@, user_id, {"url"})]

\* SELECT password FROM user_passwords WHERE user_id = ? AND label = ?
get_password(d, user_id, label) ==
    LET rows == {r \in d.user_passwords : r.user_id = user_id /\ r.label = label}
    IN  IF rows = {} THEN None ELSE (CHOOSE r \in rows : TRUE).password

\* SELECT username, password FROM user_credentials WHERE user_id = ? AND label = ?
get_credential(d, user_id, label) ==
    LET rows == {r \in d.user_credentials : r.user_id = user_id /\ r.label = label}
    IN  IF rows = {} THEN None
        ELSE LET r == CHOOSE r \in rows : TRUE
             IN  [username |-> r.username, password |-> r.password]

----------------------------------------------------------------------------
(* The calls, one action per handler.  `last` records the call and what its
   handler saw: valid (no ValueError was raised) and existing (the row the
   SELECT returned, if any).  `latest` records, per (user_id, label), the
   values the most recent valid call handed to the table. *)

MaxCalls == 3
MaxTicks == 3

Users == {1, 2}

NoCall == [op |-> "none", user_id |-> 0, args |-> <<>>,
           valid |-> FALSE, existing |-> FALSE]

NoLatest == [user_passwords |-> {}, user_credentials |-> {}]

Upsert(rows, row) ==
    {r \in rows : ~(r.user_id = row.user_id /\ r.label = row.label)} \cup {row}

Init ==
    /\ db = EmptyDb
    /\ now = 0
    /\ last = NoCall
    /\ latest = NoLatest
    /\ calls = 0
    /\ ticks = 0
    /\ procs = <<>>
    /\ lock = 0
    /\ findings = <<>>
    /\ out = <<>>
    /\ user_message_times = [u \in Users |-> <<>>]

StorePassword(U, L, P) ==
    /\ calls < MaxCalls
    /\ \E u \in U, l \in L, p \in P :
        LET vl == _validate_label(l)
            vp == _validate_password(p)
            ok == vl.ok /\ vp.ok
        IN  /\ db' = store_password(db, now, u, l, p)
            /\ last' = [op |-> "store_password", user_id |-> u, args |-> <<l, p>>,
                        valid |-> ok,
                        existing |-> ok /\ select_password(db, u, vl.val, vp.val) # {}]
            /\ latest' = IF ok
                         THEN [latest EXCEPT !.user_passwords = Upsert(@,
                                 [user_id |-> u, label |-> vl.val, password |-> vp.val])]
                         ELSE latest
    /\ calls' = calls + 1
    /\ UNCHANGED <<now, ticks, procs, lock, findings, out, user_message_times>>

StoreCredential(U, L, N, P) ==
    /\ calls < MaxCalls
    /\ \E u \in U, l \in L, n \in N, p \in P :
        LET vl == _validate_label(l)
            vn == _validate_username(n)
            vp == _validate_password(p)
            ok == vl.ok /\ vn.ok /\ vp.ok
        IN  /\ db' = store_credential(db, now, u, l, n, p)
            /\ last' = [op |-> "store_credential", user_id |-> u, args |-> <<l, n, p>>,
                        valid |-> ok,
                        existing |-> ok /\ select_credential(db, u, vl.val, vn.val,
                                                             vp.val) # {}]
            /\ latest' = IF ok
                         THEN [latest EXCEPT !.user_credentials = Upsert(@,
                                 [user_id |-> u, label |-> vl.val, username |-> vn.val,
                                  password |-> vp.val])]
                         ELSE latest
    /\ calls' = calls + 1
    /\ UNCHANGED <<now, ticks, procs, lock, findings, out, user_message_times>>

StoreNote(U, T) ==
    /\ calls < MaxCalls
    /\ \E u \in U, t \in T :
        LET vt == _validate_content(t, MAX_CONTENT_LENGTH)
        IN  /\ db' = store_note(db, now, u, t)
            /\ last' = [op |-> "store_note", user_id |-> u, args |-> <<t>>,
                        valid |-> vt.ok,
                        existing |-> vt.ok /\ select_note(db, now, u, vt.val) # {}]
    /\ calls' = calls + 1
    /\ UNCHANGED <<now, latest, ticks, procs, lock, findings, out, user_message_times>>

StoreEmail(U, E, L) ==
    /\ calls < MaxCalls
    /\ \E u \in U, e \in E, l \in L :
        LET ve == _validate_email(e)
            ok == ve.ok /\ (l = None \/ _validate_label(l).ok)
        IN  /\ db' = store_email(db, now, u, e, l)
            /\ last' = [op |-> "store_email", user_id |-> u, args |-> <<e, l>>,
                        valid |-> ok,
                        existing |-> ok /\ select_email(db, u, ve.val) # {}]
    /\ calls' = calls + 1
    /\ UNCHANGED <<now, latest, ticks, procs, lock, findings, out, user_message_times>>

StoreLink(U, R, T) ==
    /\ calls < MaxCalls
    /\ \E u \in U, r \in R, t \in T :
        LET vr == _validate_url(r)
            ok == vr.ok /\ (t = None \/ _validate_content(t, MAX_TYPE_LENGTH).ok)
        IN  /\ db' = store_link(db, now, u, r, t)
            /\ last' = [op |-> "store_link", user_id |-> u, args |-> <<r, t>>,
                        valid |-> ok,
                        existing |-> ok /\ select_link(db, u, vr.val) # {}]
    /\ calls' = calls + 1
    /\ UNCHANGED <<now, latest, ticks, procs, lock, findings, out, user_message_times>>

ClearUserData(U) ==
    /\ calls < MaxCalls
    /\ \E u \in U :
        /\ db' = clear_user_data(db, u)
        /\ last' = [op |-> "clear_user_data", user_id |-> u, args |-> <<>>,
                    valid |-> TRUE, existing |-> FALSE]
        /\ latest' = [t \in DOMAIN latest |-> {r \in latest[t] : r.user_id # u}]
    /\ calls' = calls + 1
    /\ UNCHANGED <<now, ticks, procs, lock, findings, out, user_message_times>>

ClearDuplicates(U) ==
    /\ calls < MaxCalls
    /\ \E u \in U :
        /\ db' = clear_duplicates(db, u)
        /\ last' = [op |-> "clear_duplicates", user_id |-> u, args |-> <<>>,
                    valid |-> TRUE, existing |-> FALSE]
    /\ calls' = calls + 1
    /\ UNCHANGED <<now, latest, ticks, procs, lock, findings, out, user_message_times>>

StoreMessage(U, T) ==
    /\ calls < MaxCalls
    /\ \E u \in U, t \in T :
        /\ db' = store_message(db, now, u, t, <<"t", "e", "x", "t">>)
        /\ last' = [op |-> "store_message", user_id |-> u, args |-> <<t>>,
                    valid |-> _validate_content(t, MAX_CONTENT_LENGTH).ok,
                    existing |-> FALSE]
    /\ calls' = calls + 1
    /\ UNCHANGED <<now, latest, ticks, procs, lock, findings, out, user_message_times>>

\* Time passes between two calls.
Tick(Steps) ==
    /\ ticks < MaxTicks
    /\ \E s \in Steps : now' = now + s
    /\ ticks' = ticks + 1
    /\ UNCHANGED <<db, last, latest, calls, procs, lock, findings, out, user_message_times>>

----------------------------------------------------------------------------
(* Spec: passwords and credentials, one call at a time *)

LabelInputs == {<<"a">>, <<" ", "a">>, <<";", " ", "a">>, <<>>}

UsernameInputs == {<<"n">>, <<"m", "'">>}

PasswordInputs == {<<"x", ";">>, <<"y">>}

Next ==
    \/ StorePassword(Users, LabelInputs, PasswordInputs)
    \/ StoreCredential(Users, LabelInputs, UsernameInputs, PasswordInputs)
    \/ ClearUserData(Users)
    \/ ClearDuplicates(Users)

Spec == Init /\ [][Next]_vars

Project(rows, columns) == {[c \in columns |-> r[c]] : r \in rows}

IdenticalStored(d, la) ==
    IF la.op = "store_credential"
    THEN select_credential(d, la.user_id, _validate_label(la.args[1]).val,
                           _validate_username(la.args[2]).val,
                           _validate_password(la.args[3]).val) # {}
    ELSE IF la.op = "store_password"
    THEN select_password(d, la.user_id, _validate_label(la.args[1]).val,
                         _validate_password(la.args[2]).val) # {}
    ELSE FALSE

----------------------------------------------------------------------------
(* SpecNotes: notes and the clock, one call at a time *)

NoteInputs == {<<"h", "i">>, <<"h", "i", ";">>}

\* the clock advances by a second, or by a second less than the window
TickSteps == {1, HOUR - 1}

NextNotes ==
    \/ StoreNote(Users, NoteInputs)
    \/ Tick(TickSteps)

SpecNotes == Init /\ [][NextNotes]_vars

\* the notes of user u with text t that are younger than one hour
RecentNotes(u, t) ==
    {r \in db.user_notes : r.user_id = u /\ r.note = t /\ now - r.timestamp < HOUR}

\* C4: the note recency window.  A store_note call whose text the user has
\* stored less than one hour before stores nothing; a call made when every
\* such note is at least one hour old appends one note with the text, and the
\* older notes are retained.
C4_NoteWindow ==
    [][(calls' = calls + 1 /\ last'.op = "store_note" /\ last'.valid) =>
        LET u == last'.user_id
            t == _validate_content(last'.args[1], MAX_CONTENT_LENGTH).val
        IN  IF RecentNotes(u, t) # {}
            THEN db'.user_notes = db.user_notes
            ELSE /\ db.user_notes \subseteq db'.user_notes
                 /\ \E r \in db'.user_notes \ db.user_notes :
                      /\ db'.user_notes = db.user_notes \cup {r}
                      /\ r.user_id = u /\ r.note = t /\ r.timestamp = now]_vars

\* C4 witness: the same text is stored twice for one user, the second note an
\* hour or more after the first.
C4_Witness ==
    \E r1, r2 \in db.user_notes :
        /\ r1.user_id = r2.user_id /\ r1.note = r2.note
        /\ r2.timestamp - r1.timestamp >= HOUR
        /\ last.op = "store_note" /\ last.valid /\ ~last.existing

----------------------------------------------------------------------------
(* SpecLog: emails and links, one call at a time *)

EmailInputs == {<<"a", "@", "b", ".", "c", "o">>,
                <<"a", "@", "b", ".", "c", "o", ";">>,
                <<"a", "@", "b">>}

EmailLabelInputs == {None, <<"w">>}

UrlInputs == {<<"h","t","t","p",":","/","/","a",".","b">>,
              <<"h","t","t","p","s",":","/","/","a","b">>,
              <<"h","t","t","p",":","/","/">>}

LinkTypeInputs == {None, <<"g">>}

NextLog ==
    \/ StoreEmail(Users, EmailInputs, EmailLabelInputs)
    \/ StoreLink(Users, UrlInputs, LinkTypeInputs)
    \/ ClearDuplicates(Users)

SpecLog == Init /\ [][NextLog]_vars

OnePerKey(rows, column) ==
    \A r1, r2 \in rows :
        (r1.user_id = r2.user_id /\ r1[column] = r2[column]) => r1 = r2

\* C5: first write wins for emails and links.  A store_email call inserts a
\* row only if the user has no row with the address, and otherwise leaves the
\* table (the existing row's address, label and timestamp) unchanged;
\* store_link does the same by url; after every call there is at most one row
\* per (user_id, email) and per (user_id, url).
C5_FirstWriteWins ==
    [][/\ (calls' = calls + 1 /\ last'.op = "store_email") =>
            /\ db'.user_emails # db.user_emails =>
                 /\ last'.valid
                 /\ select_email(db, last'.user_id,
                                 _validate_email(last'.args[1]).val) = {}
            /\ db.user_emails \subseteq db'.user_emails
       /\ (calls' = calls + 1 /\ last'.op = "store_link") =>
            /\ db'.user_links # db.user_links =>
                 /\ last'.valid
                 /\ select_link(db, last'.user_id,
                                _validate_url(last'.args[1]).val) = {}
            /\ db.user_links \subseteq db'.user_links
       /\ OnePerKey(db'.user_emails, "email")
       /\ OnePerKey(db'.user_links, "url")]_vars

\* C5 witness: a valid store_email call found the address stored, under
\* another label, and the first row is the one in the table.
C5_Witness ==
    /\ last.op = "store_email" /\ last.valid /\ last.existing
    /\ \E r \in db.user_emails :
         /\ r.user_id = last.user_id
         /\ r.email = _validate_email(last.args[1]).val
         /\ r.label # last.args[2]

----------------------------------------------------------------------------
(* SpecBounds: the store operations on fields at and over their bounds *)

Http == <<"h","t","t","p",":","/","/">>

AtB == <<"@","b",".","c","o">>

BoundLabels == {<<"a">>, Rep("a", MAX_LABEL_LENGTH), Rep("a", MAX_LABEL_LENGTH + 1)}

BoundUsernames == {Rep("n", MAX_USERNAME_LENGTH), Rep("n", MAX_USERNAME_LENGTH + 1)}

BoundPasswords == {Rep("x", MAX_PASSWORD_LENGTH), Rep("x", MAX_PASSWORD_LENGTH + 1)}

BoundEmails == {Rep("a", MAX_EMAIL_LENGTH - 5) \o AtB,
                Rep("a", MAX_EMAIL_LENGTH - 4) \o AtB,
                <<"a", "@", "b">>}

BoundEmailLabels == {None, Rep("a", MAX_LABEL_LENGTH + 1)}

BoundUrls == {Http \o Rep("a", MAX_URL_LENGTH - 7),
              Http \o Rep("a", MAX_URL_LENGTH - 6),
              <<"a", ".", "b">>}

NextBounds ==
    \/ StorePassword({1}, BoundLabels, BoundPasswords)
    \/ StoreCredential({1}, {<<"a">>}, BoundUsernames, {<<"x">>})
    \/ StoreEmail({1}, BoundEmails, BoundEmailLabels)
    \/ StoreLink({1}, BoundUrls, {None})

SpecBounds == Init /\ [][NextBounds]_vars

\* C10: every stored row respects the field bounds: label and username at most
\* 200 characters, password at most 500, email at most 320 and matching the
\* email format check, url at most 2000 and matching the URL format check.
C10_FieldBounds ==
    /\ \A r \in db.user_passwords :
         Len(r.label) <= MAX_LABEL_LENGTH /\ Len(r.password) <= MAX_PASSWORD_LENGTH
    /\ \A r \in db.user_credentials :
         /\ Len(r.label) <= MAX_LABEL_LENGTH
         /\ Len(r.username) <= MAX_USERNAME_LENGTH
         /\ Len(r.password) <= MAX_PASSWORD_LENGTH
    /\ \A r \in db.user_emails :
         /\ Len(r.email) <= MAX_EMAIL_LENGTH
         /\ email_format(r.email)
         /\ r.label # None => Len(r.label) <= MAX_LABEL_LENGTH
    /\ \A r \in db.user_links :
         Len(r.url) <= MAX_URL_LENGTH /\ url_format(r.url)

\* C10 witness: fields of exactly the greatest length are stored, after a call
\* that was rejected.
C10_Witness ==
    /\ \E r \in db.user_passwords :
         Len(r.label) = MAX_LABEL_LENGTH /\ Len(r.password) = MAX_PASSWORD_LENGTH
    /\ \E r \in db.user_emails : Len(r.email) = MAX_EMAIL_LENGTH
    /\ ~last.valid /\ last.op = "store_link"

----------------------------------------------------------------------------
(* SpecConc: store_* coroutines of concurrent on_message tasks.  A coroutine
   yields at each await: after the connection is opened, after the SELECT has
   been fetched, after the INSERT has been executed (its transaction holds
   SQLite's write lock, and its row is invisible to the other connections)
   and after the commit.  A writer that finds the write lock held waits. *)

NProcs == 2

Procs == 1..NProcs

Idle == [pc |-> "idle", op |-> "none", user_id |-> 0, args |-> <<>>,
         valid |-> FALSE, existing |-> FALSE]

ConcCalls ==
    {[op |-> "store_credential", user_id |-> 1, args |-> <<<<"a">>, <<"n">>, p>>] :
        p \in PasswordInputs}
    \cup {[op |-> "store_email", user_id |-> 1,
           args |-> <<<<"a", "@", "b", ".", "c", "o">>, l>>] : l \in EmailLabelInputs}
    \cup {[op |-> "store_link", user_id |-> 1,
           args |-> <<<<"h","t","t","p",":","/","/","a",".","b">>, None>>],
          [op |-> "store_note", user_id |-> 1, args |-> <<<<"h", "i">>>>],
          [op |-> "store_note", user_id |-> 1, args |-> <<<<>>>>]}

\* the validation at the head of each store_*: [ok, val], val the validated
\* arguments in order
ValidateCall(op, a) ==
    LET all(vs) == [ok |-> \A i \in 1..Len(vs) : vs[i].ok,
                    val |-> [i \in 1..Len(vs) |-> vs[i].val]]
        opt(x, v) == IF x = None THEN [ok |-> TRUE, val |-> None] ELSE v
    IN  CASE op = "store_credential" ->
               all(<<_validate_label(a[1]), _validate_username(a[2]),
                     _validate_password(a[3])>>)
          [] op = "store_email" ->
               all(<<_validate_email(a[1]), opt(a[2], _validate_label(a[2]))>>)
          [] op = "store_link" ->
               all(<<_validate_url(a[1]),
                     opt(a[2], _validate_content(a[2], MAX_TYPE_LENGTH))>>)
          [] op = "store_note" ->
               all(<<_validate_content(a[1], MAX_CONTENT_LENGTH)>>)

\* the SELECT of each store_*: TRUE if it returns a row
SelectCall(d, time, op, u, v) ==
    CASE op = "store_credential" -> select_credential(d, u, v[1], v[2], v[3]) # {}
      [] op = "store_email" -> select_email(d, u, v[1]) # {}
      [] op = "store_link" -> select_link(d, u, v[1]) # {}
      [] op = "store_note" -> select_note(d, time, u, v[1]) # {}

\* the INSERT of each store_*
WriteCall(d, time, op, u, v) ==
    CASE op = "store_credential" -> write_credential(d, time, u, v[1], v[2], v[3])
      [] op = "store_email" -> write_email(d, time, u, v[1], v[2])
      [] op = "store_link" -> write_link(d, time, u, v[1], v[2])
      [] op = "store_note" -> write_note(d, time, u, v[1])

InitConc ==
    /\ db = EmptyDb
    /\ now = 0
    /\ last = NoCall
    /\ latest = NoLatest
    /\ calls = 0
    /\ ticks = 0
    /\ procs = [p \in Procs |-> Idle]
    /\ lock = 0
    /\ findings = <<>>
    /\ out = <<>>
    /\ user_message_times = [u \in Users |-> <<>>]

\* store_* is called: the arguments are validated and the connection opened;
\* a ValueError ends the call
ConcCall(p) ==
    /\ procs[p].pc = "idle"
    /\ \E c \in ConcCalls :
        LET v == ValidateCall(c.op, c.args)
        IN  procs' = [procs EXCEPT ![p] =
                        [pc |-> IF v.ok THEN "connected" ELSE "done",
                         op |-> c.op, user_id |-> c.user_id, args |-> v.val,
                         valid |-> v.ok, existing |-> FALSE]]
    /\ UNCHANGED <<db, now, last, latest, calls, ticks, lock, findings, out, user_message_times>>

\* the SELECT is executed and fetched; `if not existing` follows at once
ConcSelect(p) ==
    /\ procs[p].pc = "connected"
    /\ LET e == SelectCall(db, now, procs[p].op, procs[p].user_id, procs[p].args)
       IN  procs' = [procs EXCEPT ![p].existing = e,
                                  ![p].pc = IF e THEN "done" ELSE "fetched"]
    /\ UNCHANGED <<db, now, last, latest, calls, ticks, lock, findings, out, user_message_times>>

\* the INSERT is executed: its transaction takes the write lock
ConcInsert(p) ==
    /\ procs[p].pc = "fetched"
    /\ lock = 0
    /\ lock' = p
    /\ procs' = [procs EXCEPT ![p].pc = "inserted"]
    /\ UNCHANGED <<db, now, last, latest, calls, ticks, findings, out, user_message_times>>

\* the commit: the row becomes visible and the lock is released
ConcCommit(p) ==
    /\ procs[p].pc = "inserted"
    /\ lock = p
    /\ db' = WriteCall(db, now, procs[p].op, procs[p].user_id, procs[p].args)
    /\ lock' = 0
    /\ procs' = [procs EXCEPT ![p].pc = "done"]
    /\ UNCHANGED <<now, last, latest, calls, ticks, findings, out, user_message_times>>

NextConc ==
    \E p \in Procs :
        \/ ConcCall(p)
        \/ ConcSelect(p)
        \/ ConcInsert(p)
        \/ ConcCommit(p)

SpecConc == InitConc /\ [][NextConc]_vars

AllDone == \A p \in Procs : procs[p].pc = "done"

\* the rows of table t that a finished call c accounts for: same user and
\* same natural key (label, email, url or note text)
RowsOf(t, column, c) ==
    {r \in db[t] : r.user_id = c.user_id /\ r[column] = c.args[1]}

\* two distinct coroutines that ran the same valid call of operation op
SameCalls(op) ==
    {pq \in Procs \X Procs :
        /\ pq[1] # pq[2]
        /\ procs[pq[1]].op = op /\ procs[pq[2]].op = op
        /\ procs[pq[1]].valid /\ procs[pq[2]].valid
        /\ procs[pq[1]].user_id = procs[pq[2]].user_id
        /\ procs[pq[1]].args = procs[pq[2]].args}

\* C2: two concurrent store_credential calls for the same user with the
\* identical (label, username, password), interleaved at any await, do not
\* leave two rows: there is never more than one credential row per
\* (user_id, label), and when every call has ended there is exactly one.
C2_ConcurrentCredential ==
    /\ OnePerKey(db.user_credentials, "label")
    /\ AllDone =>
         \A pq \in SameCalls("store_credential") :
            Cardinality(RowsOf("user_credentials", "label", procs[pq[1]])) = 1

\* C2 witness: both calls passed the existence check before either committed,
\* both executed INSERT OR REPLACE, and one row is left.
C2_Witness ==
    /\ AllDone
    /\ SameCalls("store_credential") # {}
    /\ \A p \in Procs : procs[p].op = "store_credential" /\ ~procs[p].existing
    /\ db.sqlite_sequence["user_credentials"] >= 2
    /\ Cardinality(db.user_credentials) = 1

\* C3: the dedup-then-insert sequence of store_email, store_link and
\* store_note is atomic per natural key: when two calls for the same user and
\* the same email (resp. url, resp. note text within the hour) run
\* concurrently, exactly one row is stored.
C3_AtomicDedup ==
    AllDone =>
        /\ \A pq \in SameCalls("store_email") :
             Cardinality(RowsOf("user_emails", "email", procs[pq[1]])) = 1
        /\ \A pq \in SameCalls("store_link") :
             Cardinality(RowsOf("user_links", "url", procs[pq[1]])) = 1
        /\ \A pq \in SameCalls("store_note") :
             Cardinality(RowsOf("user_notes", "note", procs[pq[1]])) = 1

----------------------------------------------------------------------------
(* CommandHandler: the normalizer and the word predicates *)

\* Mutant: | is rewritten to the digit 1, which a second pass rewrites again.
ocr_char_bar_to_one(c) ==
    CASE c = "0" -> "O"
      [] c = "1" -> "I"
      [] c = "|" -> "1"
      [] c = "5" -> "S"
      [] OTHER -> c

\* the replacements of _clean_text_content that change a character (the
\* quote entries map a character to itself; the two dash entries map to "-")
ocr_char(c) ==
    CASE c = "0" -> "O"
      [] c = "1" -> "I"
      [] c = "|" -> "I"
      [] c = "5" -> "S"
      [] OTHER -> c

OcrKeywords == {<<"u", "s", "e", "r", "n", "a", "m", "e">>, <<"p", "a", "s", "s", "w", "o", "r", "d">>, <<"u", "s", "e", "r">>, <<"p", "a", "s", "s">>, <<"l", "o", "g", "i", "n">>, <<"e", "m", "a", "i", "l">>}

_clean_text_content(content) ==
    IF content = <<>> THEN content
    ELSE LET raw_lines == split_on(content, "\n")
             cleaned == [k \in 1..Len(raw_lines) |-> join(split(raw_lines[k]), <<" ">>)]
             lines == SelectSeq(cleaned, LAMBDA l : l # <<>>)
             joined == join(lines, <<"\n">>)
             words == split(joined)
             correct == ContainsAny(lower(joined), OcrKeywords)
             cleaned_words ==
                 [k \in 1..Len(words) |->
                     IF correct /\ Len(words[k]) > 2
                     THEN [i \in 1..Len(words[k]) |-> ocr_char(words[k][i])]
                     ELSE words[k]]
         IN  join(cleaned_words, <<" ">>)

PasswordSpecials ==
    {"!", "@", "#", "$", "%", "^", "&", "*", "(", ")", "_", "+", "-", "=",
     "[", "]", "{", "}", "|", ";", ":", ",", ".", "<", ">", "?"}

\* the number of character classes (upper, lower, digit, special) in word
char_types(word) ==
    LET has(chars) == IF \E i \in 1..Len(word) : word[i] \in chars THEN 1 ELSE 0
    IN  has(UpperSet) + has(LowerSet) + has(DigitSet) + has(PasswordSpecials)

PasswordMinLength == 8
PasswordMediumLength == 12

_looks_like_password(word) ==
    /\ Len(word) >= PasswordMinLength
    /\ lower(word) \notin {<<"u", "s", "e", "r">>, <<"u", "s", "e", "r", "n", "a", "m", "e">>, <<"p", "a", "s", "s", "w", "o", "r", "d">>, <<"p", "a", "s", "s">>, <<"p", "w", "d">>, <<"g", "m", "a", "i", "l">>, <<"e", "m", "a", "i", "l">>, <<"l", "o", "g", "i", "n">>, <<"a", "c", "c", "o", "u", "n", "t">>, <<"i", "d">>, <<"n", "a", "m", "e">>, <<"l", "a", "b", "e", "l">>}
    /\ \A prefix \in {<<"u", "s", "e", "r">>, <<"e", "m", "a", "i", "l">>, <<"l", "o", "g", "i", "n">>, <<"a", "c", "c", "o", "u", "n", "t">>} : ~StartsAt(lower(word), 1, prefix)
    /\ char_types(word) >= 2
    /\ \/ char_types(word) >= 3
       \/ Len(word) >= PasswordMediumLength

UsernameMinLength == 3
UsernameMaxLength == 50

_looks_like_username(word) ==
    /\ Len(word) >= UsernameMinLength
    /\ Len(word) <= UsernameMaxLength
    /\ lower(word) \notin {<<"u", "s", "e", "r">>, <<"u", "s", "e", "r", "n", "a", "m", "e">>, <<"p", "a", "s", "s", "w", "o", "r", "d">>, <<"p", "a", "s", "s">>, <<"p", "w", "d">>, <<"e", "m", "a", "i", "l">>, <<"l", "o", "g", "i", "n">>, <<"a", "c", "c", "o", "u", "n", "t">>, <<"i", "d">>, <<"n", "a", "m", "e">>}
    /\ \/ \E i \in 1..Len(word) : word[i] = "@"
       \/ \A i \in 1..Len(word) : word[i] \in LetterSet \cup DigitSet \cup {".", "_", "-"}

LabelLookback == 3
LabelMaxLength == 50

\* words is 1-based here: index is the position of the word, and the
\* candidates are the LabelLookback words before it, except the first word of
\* the message (range(index-1, max(0, index-4), -1) stops before position 0)
_find_label_before(words, index) ==
    LET label(k) == strip(strip_chars(words[k], {":", "-"}))
        found == {k \in 2..(index - 1) :
                    /\ k >= index - LabelLookback
                    /\ lower(words[k]) \notin {<<"f", "o", "r">>, <<"t", "h", "e">>, <<"m", "y">>, <<"i", "s">>, <<"t", "o">>, <<"a", "n", "d">>, <<"o", "r">>, <<":">>, <<"-">>}
                    /\ Len(label(k)) > 1
                    /\ Len(label(k)) < LabelMaxLength}
    IN  IF found = {} THEN None
        ELSE title(label(CHOOSE k \in found : \A j \in found : j <= k))

----------------------------------------------------------------------------
(* CommandHandler: credential detection *)

\* a finding; a password finding has no username
Finding(type, label, username, password) ==
    [type |-> type, label |-> label, username |-> username, password |-> password]

password_indicators == {<<"p", "a", "s", "s", "w", "o", "r", "d">>, <<"p", "a", "s", "s">>, <<"p", "w", "d">>, <<"k", "e", "y">>, <<"s", "e", "c", "r", "e", "t">>, <<"t", "o", "k", "e", "n">>, <<"a", "u", "t", "h">>, <<"l", "o", "g", "i", "n">>}
username_indicators == {<<"u", "s", "e", "r", "n", "a", "m", "e">>, <<"u", "s", "e", "r">>, <<"e", "m", "a", "i", "l">>, <<"l", "o", "g", "i", "n">>, <<"i", "d">>, <<"a", "c", "c", "o", "u", "n", "t">>}
CommonKeywords == {<<"u", "s", "e", "r">>, <<"u", "s", "e", "r", "n", "a", "m", "e">>, <<"p", "a", "s", "s", "w", "o", "r", "d">>, <<"p", "a", "s", "s">>, <<"p", "w", "d">>, <<"e", "m", "a", "i", "l">>, <<"l", "o", "g", "i", "n">>, <<"i", "d">>, <<"a", "c", "c", "o", "u", "n", "t">>}
Detected == <<"D", "e", "t", "e", "c", "t", "e", "d">>

PasswordLookahead == 4
UsernameLookahead == 5
ContextRadius == 3

\* a word the inner loops of heuristic 2 skip
SkippedWord(word) ==
    \/ lower(word) \in password_indicators \cup username_indicators
    \/ lower(word) \in CommonKeywords

\* heuristic 2 at words[i]: the findings of one iteration of the outer loop
context_detection(words, i) ==
    LET n == Len(words)
        candidates(m) == {j \in (i + 1)..n : j <= i + m /\ ~SkippedWord(words[j])}
        first(S) == CHOOSE j \in S : \A k \in S : j <= k
        passwords == {j \in candidates(PasswordLookahead) :
                        _looks_like_password(words[j]) /\ Len(words[j]) >= PasswordMinLength}
        usernames == {j \in candidates(UsernameLookahead) : _looks_like_username(words[j])}
        after == IF usernames = {} THEN {}
                 ELSE {j \in candidates(UsernameLookahead) :
                         j > first(usernames) /\ _looks_like_password(words[j])}
    IN  IF ContainsAny(lower(words[i]), password_indicators)
        THEN IF passwords = {} THEN <<>>
             ELSE LET label == _find_label_before(words, i)
                  IN  <<Finding("password", IF label = None THEN Detected ELSE label,
                                None, words[first(passwords)])>>
        ELSE IF ContainsAny(lower(words[i]), username_indicators)
        THEN IF after = {} \/ words[first(usernames)] = words[first(after)] THEN <<>>
             ELSE LET label == _find_label_before(words, i)
                      username == words[first(usernames)]
                  IN  <<Finding("credential", IF label = None THEN username ELSE label,
                                username, words[first(after)])>>
        ELSE <<>>

\* heuristic 3 on one line: "key: value"
line_detection(raw_line) ==
    LET line == strip(raw_line)
        colon == CHOOSE i \in 1..Len(line) : line[i] = ":" /\ \A k \in 1..(i-1) : line[k] # ":"
        key == lower(strip(SubSeq(line, 1, colon - 1)))
        value == strip(SubSeq(line, colon + 1, Len(line)))
        stripped == strip(replace(replace(replace(key, <<"p", "a", "s", "s", "w", "o", "r", "d">>, <<>>), <<"p", "a", "s", "s">>, <<>>),
                                  <<"p", "w", "d">>, <<>>))
        label == IF stripped = <<>> THEN Detected ELSE stripped
    IN  IF /\ line # <<>>
           /\ \E i \in 1..Len(line) : line[i] = ":"
           /\ ContainsAny(key, password_indicators)
           /\ value # <<>>
           /\ lower(value) \notin CommonKeywords
           /\ _looks_like_password(value)
           /\ Len(value) >= PasswordMinLength
        THEN <<Finding("password", title(label), None, value)>>
        ELSE <<>>

\* heuristic 4 at words[i]: a password-like word with an indicator within
\* ContextRadius words of it
pattern_free_detection(words, i) ==
    LET around == {j \in 1..Len(words) : j # i /\ j >= i - ContextRadius /\ j <= i + ContextRadius}
        context_words == [k \in 1..Cardinality(around) |-> lower(words[Nth(around, k)])]
        label == _find_label_before(words, i)
    IN  IF /\ _looks_like_password(words[i])
           /\ Len(words[i]) >= PasswordMinLength
           /\ ContainsAny(join(context_words, <<" ">>), password_indicators \cup username_indicators)
           /\ lower(words[i]) \notin {<<"u", "s", "e", "r">>, <<"u", "s", "e", "r", "n", "a", "m", "e">>, <<"p", "a", "s", "s", "w", "o", "r", "d">>, <<"p", "a", "s", "s">>, <<"p", "w", "d">>, <<"e", "m", "a", "i", "l">>, <<"l", "o", "g", "i", "n">>}
        THEN <<Finding("password", IF label = None THEN Detected ELSE label, None, words[i])>>
        ELSE <<>>

\* the findings of credentials whose password no earlier finding has
unique_passwords(credentials) ==
    LET keep == {k \in 1..Len(credentials) :
                    \A j \in 1..(k-1) : credentials[j].password # credentials[k].password}
    IN  [m \in 1..Cardinality(keep) |-> credentials[Nth(keep, m)]]

_detect_credentials_intelligently(content) ==
    LET words == split(content)
        lines == split_on(content, "\n")
    IN  unique_passwords(
            concat([i \in 1..Len(words) |-> context_detection(words, i)])
            \o concat([k \in 1..Len(lines) |-> line_detection(lines[k])])
            \o concat([i \in 1..Len(words) |-> pattern_free_detection(words, i)]))

----------------------------------------------------------------------------
(* CommandHandler: the convenient formats.  A regular expression is modelled
   by the match it has at each start position (its end and its groups, end 0
   when there is none); finditer scans them from left to right. *)

NoMatch == [end |-> 0, groups |-> <<>>]

RECURSIVE finditer(_, _)
\* the non-overlapping matches from position pos on, leftmost first
finditer(matches, pos) ==
    LET starts == {i \in pos..Len(matches) : matches[i].end > 0}
        i == CHOOSE j \in starts : \A k \in starts : j <= k
    IN  IF starts = {} THEN <<>>
        ELSE <<[start |-> i, end |-> matches[i].end, groups |-> matches[i].groups]>>
             \o finditer(matches, matches[i].end + 1)

\* a keyword of `keywords` that s has at i, ignoring case, with whitespace
\* after it; <<>> when there is none
keyword_at(s, i, keywords) ==
    LET found == {k \in keywords :
                    /\ StartsAt(lower(s), i, k)
                    /\ i + Len(k) <= Len(s)
                    /\ s[i + Len(k)] \in Whitespace}
    IN  IF found = {} THEN <<>> ELSE CHOOSE k \in found : TRUE

\* (\w+)\s+([^\s]+)\s+([^\s]+)
simple_pattern(s, i) ==
    LET e1 == RunEnd(s, i, WordChars)
        w1 == RunEnd(s, e1 + 1, Whitespace)
        e2 == RunEndNot(s, w1 + 1, Whitespace)
        w2 == RunEnd(s, e2 + 1, Whitespace)
        e3 == RunEndNot(s, w2 + 1, Whitespace)
    IN  IF e1 >= i /\ w1 > e1 /\ e2 > w1 /\ w2 > e2 /\ e3 > w2
        THEN [end |-> e3,
              groups |-> <<SubSeq(s, i, e1), SubSeq(s, w1 + 1, e2), SubSeq(s, w2 + 1, e3)>>]
        ELSE NoMatch

\* ([^:\n]+):\s*([^/\s]+)/([^\s\n]+)
colon_slash_pattern(s, i) ==
    LET e1 == RunEndNot(s, i, {":", "\n"})
        w1 == RunEnd(s, e1 + 2, Whitespace)
        e2 == RunEndNot(s, w1 + 1, Whitespace \cup {"/"})
        e3 == RunEndNot(s, e2 + 2, Whitespace)
    IN  IF /\ e1 >= i /\ e1 < Len(s) /\ s[e1 + 1] = ":"
           /\ e2 > w1 /\ e2 < Len(s) /\ s[e2 + 1] = "/"
           /\ e3 > e2 + 1
        THEN [end |-> e3,
              groups |-> <<SubSeq(s, i, e1), SubSeq(s, w1 + 1, e2), SubSeq(s, e2 + 2, e3)>>]
        ELSE NoMatch

\* re.match(r'(?:keys):\s*(.+)', line): the group, <<>> when there is no match
field_match(line, keys) ==
    LET found == {k \in keys : StartsAt(lower(line), 1, k \o <<":">>)}
        key == CHOOSE k \in found : TRUE
        w == RunEnd(line, Len(key) + 2, Whitespace)
    IN  IF found = {} \/ Len(line) < Len(key) + 2 THEN <<>>
        ELSE IF w < Len(line) THEN SubSeq(line, w + 1, Len(line))
        ELSE <<line[Len(line)]>>

ServiceLineMaxWords == 2
ServiceLineMaxLength == 50

\* pattern 3 at lines[i]: a service line, a user line and a password line
line_by_line(lines, i) ==
    LET line == strip(lines[i])
        user_match == field_match(strip(lines[i + 1]), {<<"u", "s", "e", "r">>, <<"u", "s", "e", "r", "n", "a", "m", "e">>, <<"i", "d">>, <<"e", "m", "a", "i", "l">>})
        pass_match == field_match(strip(lines[i + 2]), {<<"p", "a", "s", "s">>, <<"p", "a", "s", "s", "w", "o", "r", "d">>, <<"p", "w", "d">>})
    IN  IF /\ line # <<>>
           /\ Len(lines) > i + 1
           /\ Len(split(line)) <= ServiceLineMaxWords
           /\ Len(line) < ServiceLineMaxLength
           /\ user_match # <<>>
           /\ pass_match # <<>>
        THEN <<Finding("credential", title(line), strip(user_match), strip(pass_match))>>
        ELSE <<>>

\* (?:user|username|id)\s+([^\s]+)\s+(?:pass|password|pwd)\s+([^\s]+)(?:\s+for\s+([^\n]+))?
\* groups[3] is None when the optional part does not match
keyword_pattern(s, i) ==
    LET k1 == keyword_at(s, i, {<<"u", "s", "e", "r">>, <<"u", "s", "e", "r", "n", "a", "m", "e">>, <<"i", "d">>})
        w1 == RunEnd(s, i + Len(k1), Whitespace)
        e2 == RunEndNot(s, w1 + 1, Whitespace)
        w2 == RunEnd(s, e2 + 1, Whitespace)
        k3 == keyword_at(s, w2 + 1, {<<"p", "a", "s", "s">>, <<"p", "a", "s", "s", "w", "o", "r", "d">>, <<"p", "w", "d">>})
        w3 == RunEnd(s, w2 + 1 + Len(k3), Whitespace)
        e4 == RunEndNot(s, w3 + 1, Whitespace)
        w4 == RunEnd(s, e4 + 1, Whitespace)
        w5 == RunEnd(s, w4 + 4, Whitespace)
        starts == {g \in (w4 + 5)..(w5 + 1) : g <= Len(s) /\ s[g] # "\n"}
        g == CHOOSE x \in starts : \A y \in starts : y <= x
        e6 == RunEndNot(s, g, {"\n"})
    IN  IF k1 # <<>> /\ e2 > w1 /\ w2 > e2 /\ k3 # <<>> /\ e4 > w3
        THEN IF w4 > e4 /\ keyword_at(s, w4 + 1, {<<"f", "o", "r">>}) # <<>> /\ starts # {}
             THEN [end |-> e6,
                   groups |-> <<SubSeq(s, w1 + 1, e2), SubSeq(s, w3 + 1, e4), SubSeq(s, g, e6)>>]
             ELSE [end |-> e4,
                   groups |-> <<SubSeq(s, w1 + 1, e2), SubSeq(s, w3 + 1, e4), None>>]
        ELSE NoMatch

\* (?:pass|password|pwd)\s+(?:for\s+)?([^:\n]+):\s*([^\s\n]+)
quick_pass_pattern(s, i) ==
    LET k1 == keyword_at(s, i, {<<"p", "a", "s", "s">>, <<"p", "a", "s", "s", "w", "o", "r", "d">>, <<"p", "w", "d">>})
        e1 == i + Len(k1) - 1
        w1 == RunEnd(s, e1 + 1, Whitespace)
        w2 == RunEnd(s, w1 + 4, Whitespace)
        colon(g) == RunEndNot(s, g, {":", "\n"}) + 1
        value(g) == RunEnd(s, colon(g) + 1, Whitespace) + 1
        matches(g) ==
            /\ colon(g) > g /\ colon(g) <= Len(s) /\ s[colon(g)] = ":"
            /\ RunEndNot(s, value(g), Whitespace) >= value(g)
        starts == {g \in (e1 + 2)..(w1 + 1) : matches(g)}
                  \cup IF keyword_at(s, w1 + 1, {<<"f", "o", "r">>}) # <<>>
                       THEN {g \in (w1 + 5)..(w2 + 1) : matches(g)}
                       ELSE {}
        g == CHOOSE x \in starts : \A y \in starts : y <= x
    IN  IF k1 # <<>> /\ starts # {}
        THEN [end |-> RunEndNot(s, value(g), Whitespace),
              groups |-> <<SubSeq(s, g, colon(g) - 1),
                           SubSeq(s, value(g), RunEndNot(s, value(g), Whitespace))>>]
        ELSE NoMatch

ConvenientKeywords == {<<"u", "s", "e", "r">>, <<"u", "s", "e", "r", "n", "a", "m", "e">>, <<"p", "a", "s", "s", "w", "o", "r", "d">>, <<"p", "a", "s", "s">>, <<"p", "w", "d">>}
ConvenientPasswordMinLength == 6
ConvenientUserMinLength == 3

\* pattern 6: a message of exactly two words
service_and_password(content) ==
    LET parts == split(content)
    IN  IF /\ Len(parts) = 2
           /\ Len(parts[2]) >= ConvenientPasswordMinLength
           /\ lower(parts[1]) \notin ConvenientKeywords \cup {<<"e", "m", "a", "i", "l">>}
        THEN <<Finding("password", title(parts[1]), None, parts[2])>>
        ELSE <<>>

\* the findings of credentials that no earlier finding equals
unique_creds(credentials) ==
    LET keep == {k \in 1..Len(credentials) :
                    \A j \in 1..(k-1) : credentials[j] # credentials[k]}
    IN  [m \in 1..Cardinality(keep) |-> credentials[Nth(keep, m)]]

_detect_convenient_formats(content) ==
    LET lines == split_on(content, "\n")
        all(matches) == finditer(matches, 1)
        simple == all([i \in 1..Len(content) |-> simple_pattern(content, i)])
        colon_slash == all([i \in 1..Len(content) |-> colon_slash_pattern(content, i)])
        keyword == all([i \in 1..Len(content) |-> keyword_pattern(content, i)])
        quick_pass == all([i \in 1..Len(content) |-> quick_pass_pattern(content, i)])
        pattern1(m) ==
            IF /\ Len(m.groups[3]) >= ConvenientPasswordMinLength
               /\ Len(m.groups[2]) >= ConvenientUserMinLength
               /\ \A k \in 1..3 : lower(m.groups[k]) \notin ConvenientKeywords
            THEN <<Finding("credential", title(m.groups[1]), m.groups[2], m.groups[3])>>
            ELSE <<>>
        pattern2(m) == Finding("credential", title(strip(m.groups[1])),
                               strip(m.groups[2]), strip(m.groups[3]))
        pattern4(m) == Finding("credential",
                               IF m.groups[3] = None THEN <<"A", "c", "c", "o", "u", "n", "t">>
                               ELSE title(strip(m.groups[3])),
                               m.groups[1], m.groups[2])
        pattern5(m) == Finding("password", title(strip(m.groups[1])), None,
                               strip(m.groups[2]))
    IN  unique_creds(
            concat([k \in 1..Len(simple) |-> pattern1(simple[k])])
            \o [k \in 1..Len(colon_slash) |-> pattern2(colon_slash[k])]
            \o concat([i \in 1..Len(lines) |-> line_by_line(lines, i)])
            \o [k \in 1..Len(keyword) |-> pattern4(keyword[k])]
            \o [k \in 1..Len(quick_pass) |-> pattern5(quick_pass[k])]
            \o service_and_password(content))

----------------------------------------------------------------------------
(* CommandHandler: e-mail addresses and links *)

AlnumSet == LetterSet \cup DigitSet

\* [A-Z|a-z]
EmailTldSet == LetterSet \cup {"|"}

\* the local part of the OCR-friendly patterns: [A-Za-z0-9._%-]
OcrLocalSet == EmailLocalSet \ {"+"}

IsWord(s, i) == i >= 1 /\ i <= Len(s) /\ s[i] \in WordChars

\* \b between s[p] and s[p+1]
Boundary(s, p) == IsWord(s, p) # IsWord(s, p + 1)

\* \b[local]+{<<"A", "-", "Z", "a", "-", "z", "0", "-", "9", ".", "-">>}+\.[A-Z|a-z]{2,}\b, and with spaced = TRUE
\* \b[local]+\s*@\s*[A-Za-z0-9.-]+\s*\.\s*[A-Z|a-z]{2,}\b
email_pattern(s, i, local, spaced) ==
    LET skip(p) == IF spaced THEN RunEnd(s, p, Whitespace) + 1 ELSE p
        at == skip(RunEnd(s, i, local) + 1)
        first == skip(at + 1)
        d == RunEnd(s, first, EmailDomainSet)
        dot(j) == IF j < d THEN j + 1 ELSE skip(d + 1)
        tld_ends(j) ==
            IF dot(j) <= Len(s) /\ s[dot(j)] = "."
            THEN {p \in (skip(dot(j) + 1) + 1)..RunEnd(s, skip(dot(j) + 1), EmailTldSet) :
                    Boundary(s, p)}
            ELSE {}
        domains == {j \in first..d : tld_ends(j) # {}}
        j == CHOOSE x \in domains : \A y \in domains : y <= x
    IN  IF /\ Boundary(s, i - 1)
           /\ RunEnd(s, i, local) >= i
           /\ at <= Len(s) /\ s[at] = "@"
           /\ domains # {}
        THEN [end |-> CHOOSE p \in tld_ends(j) : \A q \in tld_ends(j) : q <= p,
              groups |-> <<>>]
        ELSE NoMatch

\* pattern.findall(content) of a pattern without groups: the matched texts
findall(content, matches) ==
    LET found == finditer(matches, 1)
    IN  {SubSeq(content, found[k].start, found[k].end) : k \in 1..Len(found)}

\* re.sub(r'\s*c\s*', c, s): the whitespace next to a character c is removed
remove_space_around(s, c) ==
    LET before(k) == CHOOSE l \in 1..k :
                        /\ \A x \in l..k : s[x] \in Whitespace
                        /\ l = 1 \/ s[l-1] \notin Whitespace
        next_to(k) ==
            \/ before(k) > 1 /\ s[before(k) - 1] = c
            \/ RunEnd(s, k, Whitespace) < Len(s) /\ s[RunEnd(s, k, Whitespace) + 1] = c
        keep == {k \in 1..Len(s) : s[k] \notin Whitespace \/ ~next_to(k)}
    IN  [m \in 1..Cardinality(keep) |-> s[Nth(keep, m)]]

\* emails_found of _auto_categorize_and_store
emails_found(content) ==
    LET texts(local, spaced) ==
            findall(content, [i \in 1..Len(content) |-> email_pattern(content, i, local, spaced)])
        emails == texts(EmailLocalSet, FALSE) \cup texts(OcrLocalSet, FALSE)
                  \cup texts(OcrLocalSet, TRUE)
        clean(email) == remove_space_around(remove_space_around(email, "@"), ".")
        has(email, c) == \E i \in 1..Len(email) : email[i] = c
    IN  {strip(clean(email)) :
            email \in {e \in emails : /\ strip(clean(e)) # <<>>
                                      /\ has(clean(e), "@") /\ has(clean(e), ".")}}

\* [a-zA-Z] | [0-9] | [$-_@.&+] | [!*\\(\\),]: the third class is the range
\* from "$" to "_"
UrlBodySet ==
    AlnumSet \cup {"$", "%", "&", "'", "(", ")", "*", "+", ",", "-", ".", "/", ":", ";",
                   "<", "=", ">", "?", "@", "[", "\\", "]", "^", "_", "!"}

\* http[s]?://(?:body)+, and with spaced = TRUE
\* http[s]?\s*:\s*//\s*(?:body|\s)+
url_pattern(s, i, spaced) ==
    LET skip(p) == IF spaced THEN RunEnd(s, p, Whitespace) + 1 ELSE p
        scheme == IF StartsAt(s, i + 4, <<"s">>) THEN i + 4 ELSE i + 3
        colon == skip(scheme + 1)
        slashes == skip(colon + 1)
        body == RunEnd(s, slashes + 2,
                       IF spaced THEN UrlBodySet \cup Whitespace ELSE UrlBodySet)
    IN  IF /\ StartsAt(s, i, <<"h", "t", "t", "p">>)
           /\ StartsAt(s, colon, <<":">>)
           /\ StartsAt(s, slashes, <<"/", "/">>)
           /\ body >= slashes + 2
        THEN [end |-> body, groups |-> <<>>]
        ELSE NoMatch

HostLabelMaxLength == 63

\* \b(?:www\.)?[a-zA-Z0-9][a-zA-Z0-9-]{1,61}[a-zA-Z0-9]\.[a-zA-Z]{2,}(?:/[^\s]*)?
bare_url_pattern(s, i) ==
    LET label_end(q) == RunEnd(s, q, AlnumSet \cup {"-"})
        tld(q) == RunEnd(s, label_end(q) + 2, LetterSet)
        host(q) ==
            /\ q <= Len(s) /\ s[q] \in AlnumSet
            /\ label_end(q) >= q + 2 /\ label_end(q) - q + 1 <= HostLabelMaxLength
            /\ s[label_end(q)] \in AlnumSet
            /\ StartsAt(s, label_end(q) + 1, <<".">>)
            /\ tld(q) >= label_end(q) + 3
        q == IF StartsAt(s, i, <<"w", "w", "w", ".">>) /\ host(i + 4) THEN i + 4 ELSE i
    IN  IF Boundary(s, i - 1) /\ host(q)
        THEN [end |-> IF StartsAt(s, tld(q) + 1, <<"/">>)
                      THEN RunEndNot(s, tld(q) + 2, Whitespace)
                      ELSE tld(q),
              groups |-> <<>>]
        ELSE NoMatch

\* the network location urlparse finds in a url that starts with http:// or
\* https://
netloc(url) ==
    LET host == IF StartsAt(url, 1, <<"h", "t", "t", "p", "s", ":", "/", "/">>) THEN 9 ELSE 8
    IN  SubSeq(url, host, RunEndNot(url, host, {"/", "?", "#"}))

\* urlparse(url) raises ValueError: the host has "[" or "]" and the brackets
\* do not hold an IP address, which they do in no message here
urlparse_raises(url) == \E i \in 1..Len(netloc(url)) : netloc(url)[i] \in {"[", "]"}

\* urlparse(url) has a scheme and a network location; an exception of
\* urlparse is caught and makes the url invalid
is_valid_url(url) == ~urlparse_raises(url) /\ netloc(url) # <<>>

\* the matches of the three url patterns, as the loop cleans them
url_candidates(content) ==
    LET urls == findall(content, [i \in 1..Len(content) |-> url_pattern(content, i, FALSE)])
                \cup findall(content, [i \in 1..Len(content) |-> url_pattern(content, i, TRUE)])
                \cup findall(content, [i \in 1..Len(content) |-> bare_url_pattern(content, i)])
        clean(url) ==
            LET joined == SelectSeq(url, LAMBDA c : c \notin Whitespace)
            IN  IF StartsAt(joined, 1, <<"h", "t", "t", "p", ":", "/", "/">>) \/ StartsAt(joined, 1, <<"h", "t", "t", "p", "s", ":", "/", "/">>)
                THEN joined
                ELSE <<"h", "t", "t", "p", ":", "/", "/">> \o joined
    IN  {clean(url) : url \in urls}

\* Mutant: one handler around the whole link loop, so one raising candidate
\* loses every link of the message.
urls_found_one_handler(content) ==
    IF \E url \in url_candidates(content) : urlparse_raises(url) THEN {}
    ELSE {url \in url_candidates(content) : is_valid_url(url)}

\* urls_found of _auto_categorize_and_store
urls_found(content) == {url \in url_candidates(content) : is_valid_url(url)}

YoutubeIdLength == 11

\* youtube_pattern.search(url)
youtube_pattern(url) ==
    \E i \in 1..Len(url) : \E prefix \in {<<"y", "o", "u", "t", "u", "b", "e", ".", "c", "o", "m", "/", "w", "a", "t", "c", "h", "?", "v", "=">>, <<"y", "o", "u", "t", "u", ".", "b", "e", "/">>} :
        /\ StartsAt(url, i, prefix)
        /\ RunEnd(url, i + Len(prefix), AlnumSet \cup {"_", "-"})
               >= i + Len(prefix) + YoutubeIdLength - 1

link_type(url) ==
    LET in_url(subs) == ContainsAny(lower(url), subs)
    IN  IF youtube_pattern(url) THEN <<"y", "o", "u", "t", "u", "b", "e">>
        ELSE IF in_url({<<"g", "i", "t", "h", "u", "b", ".", "c", "o", "m">>}) THEN <<"g", "i", "t", "h", "u", "b">>
        ELSE IF in_url({<<"s", "t", "a", "c", "k", "o", "v", "e", "r", "f", "l", "o", "w", ".", "c", "o", "m">>}) THEN <<"s", "t", "a", "c", "k", "o", "v", "e", "r", "f", "l", "o", "w">>
        ELSE IF in_url({<<"y", "o", "u", "t", "u", "b", "e", ".", "c", "o", "m">>, <<"y", "o", "u", "t", "u", ".", "b", "e">>}) THEN <<"y", "o", "u", "t", "u", "b", "e">>
        ELSE IF in_url({<<"r", "e", "d", "d", "i", "t", ".", "c", "o", "m">>}) THEN <<"r", "e", "d", "d", "i", "t">>
        ELSE IF in_url({<<"t", "w", "i", "t", "t", "e", "r", ".", "c", "o", "m">>, <<"x", ".", "c", "o", "m">>}) THEN <<"t", "w", "i", "t", "t", "e", "r">>
        ELSE <<"g", "e", "n", "e", "r", "a", "l">>

----------------------------------------------------------------------------
(* CommandHandler._auto_categorize_and_store *)

MaxMessageLength == 10000
NoteThreshold == 50


\* storage accepts every field of the finding
valid_finding(cred) ==
    /\ _validate_label(cred.label).ok
    /\ _validate_password(cred.password).ok
    /\ cred.type = "credential" => _validate_username(cred.username).ok

\* Mutant: the ValueError of a rejected finding leaves the loop, so the
\* findings after it are not stored.
RECURSIVE store_findings_abort(_, _, _, _)
store_findings_abort(d, time, user_id, creds) ==
    IF Len(creds) = 0 \/ ~valid_finding(creds[1]) THEN d
    ELSE LET cred == creds[1]
             stored == IF cred.type = "credential"
                       THEN store_credential(d, time, user_id, cred.label,
                                             cred.username, cred.password)
                       ELSE store_password(d, time, user_id, cred.label, cred.password)
         IN  store_findings_abort(stored, time, user_id, Tail(creds))

RECURSIVE store_findings(_, _, _, _)
\* the loop that hands each finding to storage; a rejected finding is skipped
store_findings(d, time, user_id, creds) ==
    IF Len(creds) = 0 THEN d
    ELSE LET cred == creds[1]
             stored == IF cred.type = "credential"
                       THEN store_credential(d, time, user_id, cred.label,
                                             cred.username, cred.password)
                       ELSE store_password(d, time, user_id, cred.label, cred.password)
         IN  store_findings(stored, time, user_id, Tail(creds))

RECURSIVE store_emails(_, _, _, _)
store_emails(d, time, user_id, emails) ==
    IF Len(emails) = 0 THEN d
    ELSE store_emails(store_email(d, time, user_id, emails[1], None),
                      time, user_id, Tail(emails))

RECURSIVE store_links(_, _, _, _)
store_links(d, time, user_id, urls) ==
    IF Len(urls) = 0 THEN d
    ELSE store_links(store_link(d, time, user_id, urls[1], link_type(urls[1])),
                     time, user_id, Tail(urls))

\* the orders in which a loop can visit the elements of a Python set
Orders(S) ==
    {order \in [1..Cardinality(S) -> S] :
        \A i, j \in 1..Cardinality(S) : i # j => order[i] # order[j]}

\* Mutant: the convenient-format pass runs whatever the primary pass found.
categorize_both_passes(message) ==
    LET truncated == IF Len(message) > MaxMessageLength
                     THEN SubSeq(message, 1, MaxMessageLength) ELSE message
        content == _clean_text_content(truncated)
    IN  [content |-> content,
         potential_credentials |-> _detect_credentials_intelligently(content),
         convenient_credentials |-> _detect_convenient_formats(content),
         emails_found |-> emails_found(content),
         urls_found |-> urls_found(content)]

\* what _auto_categorize_and_store computes from the message before it stores
\* anything: the normalized content, the findings of the primary heuristics,
\* those of the convenient formats (looked for only when there are no primary
\* findings), the e-mail addresses and the links
categorize(message) ==
    LET truncated == IF Len(message) > MaxMessageLength
                     THEN SubSeq(message, 1, MaxMessageLength) ELSE message
        content == _clean_text_content(truncated)
        potential_credentials == _detect_credentials_intelligently(content)
    IN  [content |-> content,
         potential_credentials |-> potential_credentials,
         convenient_credentials |-> IF potential_credentials = <<>>
                                    THEN _detect_convenient_formats(content)
                                    ELSE <<>>,
         emails_found |-> emails_found(content),
         urls_found |-> urls_found(content)]

\* Mutant: the note is stored whatever the length and the other findings.
stores_note_any_length(c) ==
    /\ ~StartsAt(c.content, 1, <<"!">>)
    /\ strip(c.content) # <<>>

\* the note stage stores the content
stores_note(c) ==
    /\ ~StartsAt(c.content, 1, <<"!">>)
    /\ strip(c.content) # <<>>
    /\ \/ c.emails_found = {} /\ c.urls_found = {} /\ c.potential_credentials = <<>>
       \/ Len(strip(c.content)) > NoteThreshold

\* Mutant: the handler returns once a finding of the credential stage is
\* stored.
_auto_categorize_and_store_return(d, time, user_id, c, emails, urls) ==
    LET d1 == store_findings(d, time, user_id, c.potential_credentials)
        d2 == store_findings(d1, time, user_id, c.convenient_credentials)
        d3 == store_emails(d2, time, user_id, emails)
        d4 == store_links(d3, time, user_id, urls)
    IN  IF d2 # d THEN d2
        ELSE IF stores_note(c) THEN store_note(d4, time, user_id, strip(c.content))
        ELSE d4

\* the database after the handler, given the orders in which the two sets
\* are visited
_auto_categorize_and_store(d, time, user_id, c, emails, urls) ==
    LET d1 == store_findings(d, time, user_id, c.potential_credentials)
        d2 == store_findings(d1, time, user_id, c.convenient_credentials)
        d3 == store_emails(d2, time, user_id, emails)
        d4 == store_links(d3, time, user_id, urls)
    IN  IF stores_note(c) THEN store_note(d4, time, user_id, strip(c.content)) ELSE d4

----------------------------------------------------------------------------
(* SpecCat: messages that are not commands reach _auto_categorize_and_store.
   findings holds what the last call handed to store_credential and
   store_password. *)

MaxMessages == 2

\* a word that looks like a password and is one character too long for storage
OverlongPassword == <<"A", "a", "2">> \o Rep("x", MAX_PASSWORD_LENGTH - 2)

Messages ==
    {<<"g", "m", "a", "i", "l", " ", "j", "o", "h", "n", "@", "e", "m", "a", "i", "l", ".", "c", "o", "m", " ", "m", "y", "p", "a", "s", "s", "w", "o", "r", "d", "1", "2", "3">>,
     <<"p", "a", "s", "s", "w", "o", "r", "d", ":", " ", "g", "m", "a", "i", "l", " ", "m", "y", "S", "e", "c", "r", "e", "t", "P", "a", "s", "s", "1">>,
     <<"C", "h", "e", "c", "k", " ", "t", "h", "i", "s", " ", "o", "u", "t", ":", " ", "h", "t", "t", "p", "s", ":", "/", "/", "y", "o", "u", "t", "u", ".", "b", "e", "/", "d", "Q", "w", "4", "w", "9", "W", "g", "X", "c", "Q">>,
     <<"u", "s", "e", "r">>,
     <<"g", "m", "a", "i", "l", " ", "j", "o", "h", "n", "n", "y", " ", "a", "c", "c", "o", "u", "n", "t">>,
     <<"g", "m", "a", "i", "l", " ", "a", "b", "c", "d", "e", "f">>,
     <<";", " ", "a", "b", "c", "d", "e", "f">>,
     <<"a", ":", " ", ":", " ", "b", "/", "c">>,
     <<"G", "m", "a", "i", "l", "\n", "u", "s", "e", "r", ":", " ", "j", "o", "h", "n", "@", "e", "m", "a", "i", "l", ".", "c", "o", "m", "\n", "p", "a", "s", "s", ":", " ", "m", "y", "p", "a", "s", "s", "1", "2", "3">>,
     <<"m", "y", " ", "n", "e", "t", "f", "l", "i", "x", " ", "p", "a", "s", "s", "w", "o", "r", "d", " ", "i", "s", " ", "S", "t", "r", "0", "n", "g", "!", "P", "a", "s", "s", "9", "9", " ", "o", "k">>,
     <<"h", "e", "l", "l", "o", " ", "w", "o", "r", "l", "d">>,
     <<" ", " ", " ">>}

\* messages with findings that storage rejects or that make urlparse raise
ErrorMessages ==
    {<<"p", "a", "s", "s", "w", "o", "r", "d", " ">> \o OverlongPassword \o <<" ", "k", "e", "y", " ", "A", "b", "c", "d", "e", "f", "2", "!">>,
     <<"m", "a", "i", "l", " ", "a", "@", "b", ".", "c", "|", "d", " ", "e", "@", "f", ".", "g", "h", " ", "h", "t", "t", "p", ":", "/", "/", "x", " ", "h", "t", "t", "p", "s", ":", "/", "/", "a", "b", ".", "c", "d", "/", "e">>,
     <<"m", "a", "i", "l", " ", "e", "@", "f", ".", "g", "h", " ", "s", "e", "e", " ", "h", "t", "t", "p", ":", "/", "/", "[", "a", " ", "a", "n", "d", " ", "h", "t", "t", "p", "s", ":", "/", "/", "a", "b", "c", ".", "d", "e", "/", "f", " ", "p", "l", "u", "s", " ", "s", "o", "m", "e", " ", "m", "o", "r", "e", " ", "w", "o", "r", "d", "s", " ", "h", "e", "r", "e", " ", "o", "k">>,
     <<"s", "e", "e", " ", "h", "t", "t", "p", ":", "/", "/", "[", "a">>}


\* messages made only of reserved keywords: each keyword alone, the pairs
\* that start with id, account or login, and one message of three keywords
KeywordMessages ==
    CommonKeywords
    \cup {first \o <<" ">> \o second : first \in {<<"i", "d">>, <<"a", "c", "c", "o", "u", "n", "t">>, <<"l", "o", "g", "i", "n">>}, second \in CommonKeywords}
    \cup {<<"l", "o", "g", "i", "n", " ", "e", "m", "a", "i", "l", " ", "a", "c", "c", "o", "u", "n", "t">>}


\* direct messages: plain texts, among them one with characters the storage
\* sanitizer removes and one it trims, commands, and a text with a mention
DirectMessages ==
    {<<"h", "e", "l", "l", "o", " ", "w", "o", "r", "l", "d">>, <<"i", "t", "'", "s", " ", "a", ";", "b">>, <<" ", "g", "m", "a", "i", "l", " ", "a", "b", "c", "d", "e", "f">>, <<"!", "c", "l", "e", "a", "r">>, <<"!", "C", "l", "e", "a", "r", " ", "D", "u", "p", "l", "i", "c", "a", "t", "e", "s">>,
     <<"!", "w", "a", "k", "e">>, <<"!", "h", "e", "l", "p">>, <<"h", "i", " ", "<", "@", "!", "1", "2", ">">>}

\* messages with an e-mail address and a link next to a password that is
\* stored, next to one that storage rejects, and next to none; a plain text,
\* a bare link and a bare address
StageMessages ==
    {<<"p", "a", "s", "s", "w", "o", "r", "d", " ", "A", "b", "c", "d", "e", "f", "2", "!", " ", "m", "a", "i", "l", " ", "e", "@", "f", ".", "g", "h", " ", "h", "t", "t", "p", "s", ":", "/", "/", "a", "b", ".", "c", "d", "/", "e">>,
     <<"p", "a", "s", "s", "w", "o", "r", "d", " ">> \o OverlongPassword \o <<" ", "m", "a", "i", "l", " ", "e", "@", "f", ".", "g", "h", " ", "h", "t", "t", "p", "s", ":", "/", "/", "a", "b", ".", "c", "d", "/", "e">>,
     <<"m", "a", "i", "l", " ", "e", "@", "f", ".", "g", "h", " ", "s", "e", "e", " ", "h", "t", "t", "p", "s", ":", "/", "/", "a", "b", ".", "c", "d", "/", "e">>,
     <<"h", "e", "l", "l", "o", " ", "w", "o", "r", "l", "d">>,
     <<"s", "e", "e", " ", "w", "w", "w", ".", "a", "b", "c", ".", "d", "e">>,
     <<"a", "@", "b", ".", "c", "o">>}

\* three-line blocks: a service, a user name and a password
Blocks ==
    {[service |-> <<"G", "m", "a", "i", "l">>, user |-> <<"j", "o", "h", "n">>, pass |-> <<"a", "b", "c", "d", "e", "f">>],
     [service |-> <<"n", "e", "t", "f", "l", "i", "x">>, user |-> <<"b", "o", "b">>, pass |-> <<"q", "w", "e", "r", "t", "y">>]}

\* the message of the three lines S, user: X, pass: Y
block(b) == b.service \o <<"\n", "u", "s", "e", "r", ":", " ">> \o b.user \o <<"\n", "p", "a", "s", "s", ":", " ">> \o b.pass

\* a password indicator at token 0, 1 and 2, followed by a password
LabelMessages ==
    {<<"p", "a", "s", "s", "w", "o", "r", "d", " ", "A", "b", "c", "d", "e", "f", "2", "!">>, <<"g", "m", "a", "i", "l", " ", "p", "a", "s", "s", "w", "o", "r", "d", " ", "A", "b", "c", "d", "e", "f", "2", "!">>, <<"t", "h", "e", " ", "p", "a", "s", "s", "w", "o", "r", "d", " ", "A", "b", "c", "d", "e", "f", "2", "!">>,
     <<"m", "y", " ", "g", "m", "a", "i", "l", " ", "p", "a", "s", "s", "w", "o", "r", "d", " ", "A", "b", "c", "d", "e", "f", "2", "!">>}

\* messages that are one URL written with its scheme, and nothing else
UrlMessages == {<<"h", "t", "t", "p", "s", ":", "/", "/", "a", "b", "c", ".", "d", "e", "/", "f">>, <<"h", "t", "t", "p", ":", "/", "/", "a", "b", "c", "d", ".", "e", "f">>}

\* messages that are one e-mail address, and nothing else
EmailMessages == {<<"j", "o", "h", "n", "@", "e", "m", "a", "i", "l", ".", "c", "o", "m">>, <<"a", "@", "b", ".", "c", "o">>}

\* a plain message and a command, sent over and over
RateMessages == {<<"h", "i">>, <<"!", "x">>}

FormatMessages ==
    {block(b) : b \in Blocks} \cup LabelMessages \cup UrlMessages \cup EmailMessages

\* the contents store_message writes for them
StoredTexts == {_validate_content(m, MAX_CONTENT_LENGTH).val : m \in DirectMessages}

\* categorize, once for each message
Categorized ==
    [m \in Messages \cup ErrorMessages \cup KeywordMessages \cup DirectMessages \cup StoredTexts
           \cup StageMessages \cup FormatMessages
           \cup RateMessages
        |-> categorize(m)]

\* one call of the handler for message m of user u; c is categorize(m)
CategorizeCall(u, m, c) ==
    IF strip(m) = <<>>
    THEN /\ db' = db
         /\ findings' = <<>>
         /\ last' = [op |-> "categorize", user_id |-> u, args |-> <<m>>,
                     valid |-> FALSE, existing |-> FALSE]
    ELSE /\ \E emails \in Orders(c.emails_found), urls \in Orders(c.urls_found) :
                db' = _auto_categorize_and_store(db, now, u, c, emails, urls)
         /\ findings' = c.potential_credentials \o c.convenient_credentials
         /\ last' = [op |-> "categorize", user_id |-> u, args |-> <<m>>,
                     valid |-> TRUE, existing |-> FALSE]

Categorize(U, M) ==
    /\ calls < MaxMessages
    /\ \E u \in U, m \in M : CategorizeCall(u, m, Categorized[m])
    /\ calls' = calls + 1
    /\ UNCHANGED <<now, latest, ticks, procs, lock, out, user_message_times>>

NextCat == Categorize(Users, Messages)

SpecCat == Init /\ [][NextCat]_vars

\* C7: no finding handed to storage has a username or a password that is,
\* ignoring case, one of the reserved keywords user, username, password,
\* pass, pwd, email, login, id, account.
C7_NoReservedKeyword ==
    \A k \in 1..Len(findings) :
        /\ lower(findings[k].password) \notin CommonKeywords
        /\ findings[k].type = "credential" => lower(findings[k].username) \notin CommonKeywords

\* C8: a label is never empty: every finding categorize emits and every row
\* of user_passwords and user_credentials has a label of at least one
\* character.
C8_LabelNeverEmpty ==
    /\ \A k \in 1..Len(findings) : findings[k].label # <<>>
    /\ \A r \in db.user_passwords \cup db.user_credentials : r.label # <<>>

\* C9: the password of every finding handed to storage has at least six
\* characters and at least two of the character classes uppercase, lowercase,
\* digit and symbol.
C9_PasswordShape ==
    \A k \in 1..Len(findings) :
        /\ Len(findings[k].password) >= 6
        /\ char_types(findings[k].password) >= 2

----------------------------------------------------------------------------
(* SpecErr: messages whose findings storage rejects, or whose links urlparse
   cannot parse, reach _auto_categorize_and_store. *)

NextErr == Categorize(Users, ErrorMessages)

SpecErr == Init /\ [][NextErr]_vars

\* the e-mail addresses and the links of a message that storage accepts
valid_emails(c) == {e \in c.emails_found : _validate_email(e).ok}

valid_urls(c) == {u \in c.urls_found : _validate_url(u).ok}

\* the findings of each message that storage accepts
Accepted ==
    [m \in ErrorMessages |->
        [potential_credentials |->
             SelectSeq(Categorized[m].potential_credentials, valid_finding),
         convenient_credentials |->
             SelectSeq(Categorized[m].convenient_credentials, valid_finding),
         emails_found |-> valid_emails(Categorized[m]),
         urls_found |-> valid_urls(Categorized[m])]]

\* the database after the accepted findings of message c are stored, and
\* then the note as the handler decides it for c
store_accepted(d, time, user_id, c, accepted, emails, urls) ==
    LET d1 == store_findings(d, time, user_id, accepted.potential_credentials)
        d2 == store_findings(d1, time, user_id, accepted.convenient_credentials)
        d3 == store_emails(d2, time, user_id, emails)
        d4 == store_links(d3, time, user_id, urls)
    IN  IF stores_note(c) THEN store_note(d4, time, user_id, strip(c.content)) ELSE d4

\* C11: a finding that fails validation at a store_* call is skipped, storage
\* is not changed by that call, and the remaining findings of the same
\* categorize call are still stored: the database after a categorize call is
\* the one reached by storing only the findings, e-mail addresses and links
\* that pass validation, and then the note.
C11_ValidationError ==
    [][last'.op = "categorize" /\ last'.valid =>
        LET c == Categorized[last'.args[1]]
            u == last'.user_id
            accepted == Accepted[last'.args[1]]
        IN  \E emails \in Orders(accepted.emails_found), urls \in Orders(accepted.urls_found) :
                db' = store_accepted(db, now, u, c, accepted, emails, urls)]_vars

\* a call whose first finding has a password over the length bound and whose
\* second finding is in storage, after a call of the same user that found an
\* e-mail address and a link that fail the format check and ones that pass
C11_Witness ==
    /\ last.op = "categorize"
    /\ Len(findings) = 2
    /\ Len(findings[1].password) > MAX_PASSWORD_LENGTH
    /\ \E r \in db.user_passwords :
           r.label = findings[2].label /\ r.password = findings[2].password
    /\ \A r \in db.user_passwords : Len(r.password) <= MAX_PASSWORD_LENGTH
    /\ {r.email : r \in {q \in db.user_emails : q.user_id = 1}} = {<<"e", "@", "f", ".", "g", "h">>}
    /\ {r.url : r \in {q \in db.user_links : q.user_id = 1}}
           = {<<"h", "t", "t", "p", "s", ":", "/", "/", "a", "b", ".", "c", "d", "/", "e">>, <<"h", "t", "t", "p", ":", "/", "/", "x", "h", "t", "t", "p", "s", ":", "/", "/", "a", "b", ".", "c", "d", "/", "e">>}

C13_NoteFallback ==
    [][last'.op = "categorize" /\ last'.valid =>
        LET c == Categorized[last'.args[1]]
            u == last'.user_id
            trimmed == strip(c.content)
            structured == findings' # <<>> \/ c.emails_found # {} \/ c.urls_found # {}
            emitted == \E r \in db'.user_notes \ db.user_notes :
                           r.user_id = u /\ r.note = trimmed
        IN  (\A r \in db.user_notes : ~(r.user_id = u /\ r.note = trimmed)) =>
                (emitted <=> /\ ~StartsAt(c.content, 1, <<"!">>)
                             /\ ~structured \/ Len(trimmed) > NoteThreshold)]_vars

\* C14: for the input "gmail john@email.com mypassword123" categorize emits
\* exactly one finding, the Credential with label Gmail, username
\* john@email.com and password mypassword123, no separate Password, and no
\* Note.
C14_ServiceUserPass ==
    last.op = "categorize" /\ last.args = <<<<"g", "m", "a", "i", "l", " ", "j", "o", "h", "n", "@", "e", "m", "a", "i", "l", ".", "c", "o", "m", " ", "m", "y", "p", "a", "s", "s", "w", "o", "r", "d", "1", "2", "3">>>> =>
        /\ findings = <<Finding("credential", <<"G", "m", "a", "i", "l">>, <<"j", "o", "h", "n", "@", "e", "m", "a", "i", "l", ".", "c", "o", "m">>, <<"m", "y", "p", "a", "s", "s", "w", "o", "r", "d", "1", "2", "3">>)>>
        /\ \A r \in db.user_notes :
               r.user_id = last.user_id => r.note # <<"g", "m", "a", "i", "l", " ", "j", "o", "h", "n", "@", "e", "m", "a", "i", "l", ".", "c", "o", "m", " ", "m", "y", "p", "a", "s", "s", "w", "o", "r", "d", "1", "2", "3">>

\* C15: for the input "password: gmail mySecretPass1" categorize emits the
\* Password with label Gmail and value mySecretPass1, and the password stored
\* under the label Gmail is mySecretPass1.
C15_PasswordWithService ==
    last.op = "categorize" /\ last.args = <<<<"p", "a", "s", "s", "w", "o", "r", "d", ":", " ", "g", "m", "a", "i", "l", " ", "m", "y", "S", "e", "c", "r", "e", "t", "P", "a", "s", "s", "1">>>> =>
        /\ \E k \in 1..Len(findings) :
               findings[k] = Finding("password", <<"G", "m", "a", "i", "l">>, None, <<"m", "y", "S", "e", "c", "r", "e", "t", "P", "a", "s", "s", "1">>)
        /\ \E r \in db.user_passwords :
               /\ r.user_id = last.user_id
               /\ r.label = <<"G", "m", "a", "i", "l">>
               /\ r.password = <<"m", "y", "S", "e", "c", "r", "e", "t", "P", "a", "s", "s", "1">>

\* C16 as stated: for the input "Check this out: https://youtu.be/dQw4w9WgXcQ"
\* categorize emits the Link https://youtu.be/dQw4w9WgXcQ of type youtube
\* and a Note.
C16_LinkAndNote ==
    last.op = "categorize" /\ last.args = <<<<"C", "h", "e", "c", "k", " ", "t", "h", "i", "s", " ", "o", "u", "t", ":", " ", "h", "t", "t", "p", "s", ":", "/", "/", "y", "o", "u", "t", "u", ".", "b", "e", "/", "d", "Q", "w", "4", "w", "9", "W", "g", "X", "c", "Q">>>> =>
        /\ \E r \in db.user_links :
               /\ r.user_id = last.user_id
               /\ r.url = <<"h", "t", "t", "p", "s", ":", "/", "/", "y", "o", "u", "t", "u", ".", "b", "e", "/", "d", "Q", "w", "4", "w", "9", "W", "g", "X", "c", "Q">>
               /\ r.link_type = <<"y", "o", "u", "t", "u", "b", "e">>
        /\ \E r \in db.user_notes :
               /\ r.user_id = last.user_id
               /\ r.note = <<"C", "h", "e", "c", "k", " ", "t", "h", "i", "s", " ", "o", "u", "t", ":", " ", "h", "t", "t", "p", "s", ":", "/", "/", "y", "o", "u", "t", "u", ".", "b", "e", "/", "d", "Q", "w", "4", "w", "9", "W", "g", "X", "c", "Q">>

\* C16, amended: for the input "Check this out: https://youtu.be/dQw4w9WgXcQ"
\* categorize emits the Link https://youtu.be/dQw4w9WgXcQ of type youtube
\* and no Note.
C16_LinkAndNoNote ==
    last.op = "categorize" /\ last.args = <<<<"C", "h", "e", "c", "k", " ", "t", "h", "i", "s", " ", "o", "u", "t", ":", " ", "h", "t", "t", "p", "s", ":", "/", "/", "y", "o", "u", "t", "u", ".", "b", "e", "/", "d", "Q", "w", "4", "w", "9", "W", "g", "X", "c", "Q">>>> =>
        /\ \E r \in db.user_links :
               /\ r.user_id = last.user_id
               /\ r.url = <<"h", "t", "t", "p", "s", ":", "/", "/", "y", "o", "u", "t", "u", ".", "b", "e", "/", "d", "Q", "w", "4", "w", "9", "W", "g", "X", "c", "Q">>
               /\ r.link_type = <<"y", "o", "u", "t", "u", "b", "e">>
        /\ \A r \in db.user_notes :
               r.user_id = last.user_id
                   => r.note # <<"C", "h", "e", "c", "k", " ", "t", "h", "i", "s", " ", "o", "u", "t", ":", " ", "h", "t", "t", "p", "s", ":", "/", "/", "y", "o", "u", "t", "u", ".", "b", "e", "/", "d", "Q", "w", "4", "w", "9", "W", "g", "X", "c", "Q">>

\* the call for this input has just stored its links
C16_Witness ==
    /\ last.op = "categorize"
    /\ last.args = <<<<"C", "h", "e", "c", "k", " ", "t", "h", "i", "s", " ", "o", "u", "t", ":", " ", "h", "t", "t", "p", "s", ":", "/", "/", "y", "o", "u", "t", "u", ".", "b", "e", "/", "d", "Q", "w", "4", "w", "9", "W", "g", "X", "c", "Q">>>>
    /\ \E r \in db.user_links : r.user_id = last.user_id /\ r.link_type = <<"y", "o", "u", "t", "u", "b", "e">>

----------------------------------------------------------------------------
(* SpecKeywords: messages made only of reserved keywords reach
   _auto_categorize_and_store. *)

NextKeywords == Categorize({1}, KeywordMessages)

SpecKeywords == Init /\ [][NextKeywords]_vars

\* C17: for the input "user" alone, and for any input made only of reserved
\* keywords, neither the primary heuristics nor the convenient formats
\* produce a Credential or a Password finding.
C17_ReservedKeywordGuard ==
    last.op = "categorize" /\ last.args[1] \in KeywordMessages => findings = <<>>

----------------------------------------------------------------------------
(* SpecNorm: _clean_text_content is applied to a text, and again to what it
   returned.  The texts are made of up to MaxPieces pieces: a trigger keyword,
   words with the characters the OCR correction rewrites, of length two,
   three and one, and the three whitespace characters. *)

MaxPieces == 4
MaxNormalize == 2

NormPieces == {<<"u", "s", "e", "r">>, <<"a", "1">>, <<"x", "0", "5">>, <<"|">>, <<" ">>, <<"\n">>, <<"\t">>}

NormInputs ==
    UNION {{concat(pieces) : pieces \in [1..n -> NormPieces]} : n \in 0..MaxPieces}

InitText ==
    /\ db = EmptyDb
    /\ now = 0
    /\ latest = NoLatest
    /\ calls = 0
    /\ ticks = 0
    /\ procs = <<>>
    /\ lock = 0
    /\ findings = <<>>
    /\ user_message_times = [u \in Users |-> <<>>]
    /\ \E s \in NormInputs :
           /\ out = s
           /\ last = [op |-> "input", user_id |-> 0, args |-> <<s>>,
                      valid |-> TRUE, existing |-> FALSE]

\* content = self._clean_text_content(content)
Normalize ==
    /\ calls < MaxNormalize
    /\ out' = _clean_text_content(out)
    /\ last' = [last EXCEPT !.op = "normalize"]
    /\ calls' = calls + 1
    /\ UNCHANGED <<db, now, latest, ticks, procs, lock, findings,
                   user_message_times>>

NextNorm == Normalize

SpecNorm == InitText /\ [][NextNorm]_vars

\* C18: the normalizer is idempotent: applied to a text it returned, it
\* returns that text again, also for texts with a trigger keyword and the
\* characters 0, 1, | and 5 in words longer and shorter than three characters.
C18_Idempotent ==
    [][last.op = "normalize" => out' = out]_vars

\* the normalizer has been applied twice to a text with a trigger keyword, a
\* two-character word it leaves alone and a longer word it rewrote
C18_Witness ==
    /\ last.op = "normalize"
    /\ calls = 2
    /\ last.args = <<<<"u", "s", "e", "r", "x", "0", "5", " ", "a", "1">>>>
    /\ out = <<"u", "s", "e", "r", "x", "O", "S", " ", "a", "1">>

\* C19: the normalizer preserves the line structure: for a text with k lines
\* that are not blank it returns those k lines, in each of them every run of
\* whitespace collapsed to one space, joined by one line break; blank lines
\* are dropped.
C19_LineStructure ==
    last.op = "normalize" /\ calls = 1 =>
        LET kept == SelectSeq(split_on(last.args[1], "\n"), LAMBDA l : split(l) # <<>>)
            returned == IF out = <<>> THEN <<>> ELSE split_on(out, "\n")
        IN  /\ Len(returned) = Len(kept)
            /\ \A k \in 1..Len(returned) :
                   /\ Len(split(returned[k])) = Len(split(kept[k]))
                   /\ returned[k] = join(split(returned[k]), <<" ">>)

----------------------------------------------------------------------------
(* SpecMsg: PersonalDataBot.on_message for direct messages without
   attachments. *)

MaxSuspiciousLength == 2000
MaxBangs == 10
max_messages_per_minute == 10
max_commands_per_minute == 5
MINUTE == 60
RecentLimit == 100

\* re.search of one of suspicious_patterns at position i: a prefix, for the
\* emoji pattern a name, then digits and ">"
mention_at(s, i, prefix, named) ==
    /\ StartsAt(s, i, prefix)
    /\ LET name == i + Len(prefix)
           colon == RunEnd(s, name, WordChars) + 1
           digits == IF named THEN colon + 1 ELSE name
           close == RunEnd(s, digits, DigitSet) + 1
       IN  /\ named => colon > name /\ colon <= Len(s) /\ s[colon] = ":"
           /\ close > digits
           /\ close <= Len(s)
           /\ s[close] = ">"

_is_suspicious_content(content) ==
    \/ \E i \in 1..Len(content) :
           \/ \E prefix \in {<<"<", "@">>, <<"<", "@", "!">>, <<"<", "#">>, <<"<", "@", "&">>} : mention_at(content, i, prefix, FALSE)
           \/ \E prefix \in {<<"<", ":">>, <<"<", "a", ":">>} : mention_at(content, i, prefix, TRUE)
    \/ Len(content) > MaxSuspiciousLength
    \/ Cardinality({i \in 1..Len(content) : content[i] = "!"}) > MaxBangs

\* _handle_quick_store: the findings of the convenient formats in the text
\* after !store or !save, else the two or three words of it, handed to storage
\* the credentials _handle_quick_store stores: those the convenient formats
\* detected in the content, else the three or two words of the content
quick_store_credentials(detected, parts) ==
    LET label(service) == title(strip_chars(service, {"\"", "'"}))
    IN  IF detected # <<>> THEN detected
        ELSE IF Len(parts) = 3
        THEN <<Finding("credential", label(parts[1]), parts[2], parts[3])>>
        ELSE IF Len(parts) = 2
        THEN <<Finding("password", label(parts[1]), None, parts[2])>>
        ELSE <<>>

\* the text after !store or !save
quick_store_content(command) ==
    strip(SubSeq(command, IF StartsAt(command, 1, <<"!", "s", "t", "o", "r", "e">>) THEN 7 ELSE 6, Len(command)))

_handle_quick_store(d, time, user_id, content) ==
    IF content = <<>> THEN d
    ELSE store_findings(d, time, user_id,
             quick_store_credentials(_detect_convenient_formats(content), split(content)))

\* _handle_get_password: the password shown in the reply, None when the reply
\* is the usage text or "No password found"
_handle_get_password(d, user_id, command) ==
    LET parts == split(command)
        password == get_password(d, user_id, join(SubSeq(parts, 3, Len(parts)), <<" ">>))
    IN  IF Len(parts) < 3 \/ password = <<>> THEN None ELSE password

\* handle_command, the database it leaves: !store and !save, !clear
\* duplicates and !clear write, the other commands of the inputs only read
\* (the inputs hold no !add)
handle_command(d, time, user_id, command) ==
    LET lowered == lower(strip(command))
    IN  IF StartsAt(lowered, 1, <<"!", "g", "e", "t", " ">>) THEN d
        ELSE IF StartsAt(lowered, 1, <<"!", "s", "t", "o", "r", "e">>) \/ StartsAt(lowered, 1, <<"!", "s", "a", "v", "e">>)
        THEN _handle_quick_store(d, time, user_id, quick_store_content(lowered))
        ELSE IF StartsAt(lowered, 1, <<"!", "c", "l", "e", "a", "r", " ", "d", "u", "p", "l", "i", "c", "a", "t", "e", "s">>) THEN clear_duplicates(d, user_id)
        ELSE IF StartsAt(lowered, 1, <<"!", "c", "l", "e", "a", "r">>) THEN clear_user_data(d, user_id)
        ELSE d

\* handle_command, the password its reply shows (None: the reply shows none)
command_reply(d, user_id, command) ==
    LET lowered == lower(strip(command))
    IN  IF StartsAt(lowered, 1, <<"!", "g", "e", "t", " ", "p", "a", "s", "s", "w", "o", "r", "d">>)
        THEN _handle_get_password(d, user_id, lowered)
        ELSE None

\* the outcomes of one _auto_categorize_and_store call: the database and the
\* findings handed to storage, for each order in which the sets are visited
stored_outcomes(d, time, user_id, c) ==
    {[db |-> _auto_categorize_and_store(d, time, user_id, c, emails, urls),
      findings |-> c.potential_credentials \o c.convenient_credentials] :
        emails \in Orders(c.emails_found), urls \in Orders(c.urls_found)}

categorize_and_store(d, time, user_id, content) ==
    IF strip(content) = <<>> THEN {[db |-> d, findings |-> <<>>]}
    ELSE stored_outcomes(d, time, user_id, Categorized[content])

\* get_recent_messages: the user's messages, latest first, at most `limit`
get_recent_messages(d, user_id, limit) ==
    LET rows == {r \in d.user_messages : r.user_id = user_id}
        n == IF Cardinality(rows) < limit THEN Cardinality(rows) ELSE limit
    IN  {SubSeq(order, 1, n) : order \in
            {o \in Orders(rows) :
                \A i, j \in 1..Len(o) : i < j => o[i].timestamp >= o[j].timestamp}}

RECURSIVE history_contents(_, _)
\* the contents _process_conversation_history hands to
\* _auto_categorize_and_store, in this order; `processed` are those seen
history_contents(messages, processed) ==
    IF Len(messages) = 0 THEN <<>>
    ELSE LET msg == messages[1]
             is_ocr == StartsAt(msg.content, 1, <<"[", "I", "M", "A", "G", "E", " ", "O", "C", "R", "]">>)
             content == IF is_ocr THEN strip(SubSeq(msg.content, 12, Len(msg.content)))
                        ELSE msg.content
             skipped == \/ msg.message_type \notin {<<"t", "e", "x", "t">>, <<"i", "m", "a", "g", "e", "_", "o", "c", "r">>}
                        \/ ~is_ocr /\ StartsAt(content, 1, <<"[", "I", "M", "A", "G", "E", " ", "E", "R", "R", "O", "R", "]">>)
                        \/ ~is_ocr /\ StartsAt(content, 1, <<"!">>)
                        \/ strip(content) \in processed
         IN  IF skipped THEN history_contents(Tail(messages), processed)
             ELSE <<content>> \o history_contents(Tail(messages),
                                                  processed \cup {strip(content)})

RECURSIVE categorize_each(_, _, _, _)
\* the outcomes of calling _auto_categorize_and_store for each of `contents`
\* in turn, from each of `outcomes`
categorize_each(outcomes, time, user_id, contents) ==
    IF Len(contents) = 0 THEN outcomes
    ELSE categorize_each(
             UNION {categorize_and_store(o.db, time, user_id, contents[1]) : o \in outcomes},
             time, user_id, Tail(contents))

\* message.content.lower().startswith('!wake') or ...startswith('!hey')
is_wake_up(content) ==
    StartsAt(lower(content), 1, <<"!", "w", "a", "k", "e">>) \/ StartsAt(lower(content), 1, <<"!", "h", "e", "y">>)

\* Mutant: commands are held to the limit of plain messages.
_check_rate_limit_one_limit(user_times, current_time, is_command) ==
    LET kept == SelectSeq(user_times, LAMBDA t : current_time - t < MINUTE)
    IN  IF Len(kept) >= max_messages_per_minute
        THEN [ok |-> FALSE, user_times |-> kept]
        ELSE [ok |-> TRUE, user_times |-> Append(kept, current_time)]

\* _check_rate_limit on the user's list user_times at current_time: entries a
\* minute old or older are dropped, the message is refused when the list
\* already holds max_allowed entries, and recorded when it is let through
_check_rate_limit(user_times, current_time, is_command) ==
    LET kept == SelectSeq(user_times, LAMBDA t : current_time - t < MINUTE)
        max_allowed == IF is_command THEN max_commands_per_minute
                       ELSE max_messages_per_minute
    IN  IF Len(kept) >= max_allowed
        THEN [ok |-> FALSE, user_times |-> kept]
        ELSE [ok |-> TRUE, user_times |-> Append(kept, current_time)]

\* on_message after the rate limiter let the message through.  A suspicious
\* message is dropped; a wake-up categorizes the user's stored messages again
\* and is not stored; any other message is stored, then handled as a command
\* if it starts with "!" and categorized if not.
Deliver(u, content) ==
    IF _is_suspicious_content(content)
    THEN /\ UNCHANGED <<db, findings>>
         /\ last' = [op |-> "blocked", user_id |-> u, args |-> <<content>>,
                     valid |-> FALSE, existing |-> FALSE]
    ELSE IF is_wake_up(content)
    THEN /\ \E messages \in get_recent_messages(db, u, RecentLimit) :
                \E o \in categorize_each({[db |-> db, findings |-> findings]}, now, u,
                                         history_contents(messages, {})) :
                    db' = o.db /\ findings' = o.findings
         /\ last' = [op |-> "wake_up", user_id |-> u, args |-> <<content>>,
                     valid |-> TRUE, existing |-> FALSE]
    ELSE LET command == StartsAt(content, 1, <<"!">>)
             stored == store_message(db, now, u, content, <<"t", "e", "x", "t">>)
             handled == IF command THEN handle_command(stored, now, u, content)
                        ELSE stored
         IN  /\ \E o \in categorize_each({[db |-> handled, findings |-> findings]}, now, u,
                                         IF command THEN <<>> ELSE <<content>>) :
                    db' = o.db /\ findings' = o.findings
             /\ last' = [op |-> IF command THEN "command" ELSE "message",
                         user_id |-> u, args |-> <<content>>,
                         valid |-> TRUE, existing |-> FALSE]

\* on_message for a direct message of user u without attachments, the Max-th
\* message at the latest.  A message the rate limiter refuses is answered
\* "Rate limit exceeded" and nothing else happens to it.
OnMessage(U, C, Max) ==
    /\ calls < Max
    /\ \E u \in U, content \in C :
        LET limit == _check_rate_limit(user_message_times[u], now,
                                       StartsAt(content, 1, <<"!">>))
        IN  /\ user_message_times' = [user_message_times EXCEPT ![u] = limit.user_times]
            /\ IF limit.ok
               THEN Deliver(u, content)
               ELSE /\ UNCHANGED <<db, findings>>
                    /\ last' = [op |-> "rate_limited", user_id |-> u,
                                args |-> <<content>>,
                                valid |-> FALSE, existing |-> FALSE]
    /\ calls' = calls + 1
    /\ UNCHANGED <<now, latest, ticks, procs, lock, out>>

NextMsg == OnMessage(Users, DirectMessages, MaxMessages)

SpecMsg == Init /\ [][NextMsg]_vars

\* C20: the log of raw messages is append-only and never mutated: a message
\* that is stored holds the unmodified input text and the type tag text, and
\* every message of the log is still in it, unchanged, after any later
\* message or command, !clear, !clear duplicates and the wake-up included.
C20_AppendOnlyLog ==
    [][/\ \A r \in db.user_messages : r \in db'.user_messages
       /\ \A r \in db'.user_messages \ db.user_messages :
              r.content = last'.args[1] /\ r.message_type = <<"t", "e", "x", "t">>]_vars

----------------------------------------------------------------------------
(* SpecScope: every store_* and both clear operations, for two users *)

NextScope ==
    \/ StorePassword(Users, {<<"a">>}, PasswordInputs)
    \/ StoreCredential(Users, {<<"a">>}, {<<"n">>}, PasswordInputs)
    \/ StoreNote(Users, {<<"h", "i">>})
    \/ StoreEmail(Users, {<<"a", "@", "b", ".", "c", "o">>}, {None})
    \/ StoreLink(Users, {<<"h", "t", "t", "p", ":", "/", "/", "a", ".", "b">>}, {None})
    \/ StoreMessage(Users, {<<"h", "i">>})
    \/ ClearUserData(Users)
    \/ ClearDuplicates(Users)

SpecScope == Init /\ [][NextScope]_vars

\* the records of the users other than user_id, table by table
RecordsOfOthers(d, user_id) ==
    [t \in Tables |-> {r \in d[t] : r.user_id # user_id}]

\* C21: entities are scoped per user.  A store_*, clear_user_data or
\* clear_duplicates call made for a user leaves every record of every other
\* user as it was (the row with its id and timestamp), and after every call
\* get_password and get_credential for a user and a label return either
\* nothing or the values that a call for that same user wrote under the label.
C21_UserScope ==
    [][calls' = calls + 1 =>
          /\ RecordsOfOthers(db', last'.user_id) = RecordsOfOthers(db, last'.user_id)
          /\ \A u \in Users, l \in {r.label : r \in db'.user_passwords} :
                get_password(db', u, l) # None =>
                    [user_id |-> u, label |-> l, password |-> get_password(db', u, l)]
                        \in latest'.user_passwords
          /\ \A u \in Users, l \in {r.label : r \in db'.user_credentials} :
                (\E r \in db'.user_credentials : r.user_id = u /\ r.label = l) =>
                    [user_id |-> u, label |-> l,
                     username |-> get_credential(db', u, l).username,
                     password |-> get_credential(db', u, l).password]
                        \in latest'.user_credentials]_vars

\* C21 witness: both users have a password under the same label, with
\* different values, and the data of user 1 has just been cleared while the
\* row of user 2 is still there.
C21_Witness ==
    /\ last.op = "clear_user_data"
    /\ last.user_id = 1
    /\ get_password(db, 1, <<"a">>) = None
    /\ get_password(db, 2, <<"a">>) = <<"y">>
    /\ db.sqlite_sequence["user_passwords"] = 2

----------------------------------------------------------------------------
(* SpecCmd: CommandHandler.handle_command for !store and !get password, and
   _auto_categorize_and_store for a message with a password.  `out` holds the
   password that the reply of the last command shows. *)

Commands ==
    {<<"!", "s", "t", "o", "r", "e", " ", "N", "e", "t", "f", "l", "i", "x", " ", "S", "e", "c", "r", "e", "t", "1", "2", "3">>, <<"!", "s", "t", "o", "r", "e", " ", "1", "2", "3", " ", "a", "b", "c", "d", "e", "f", "1">>, <<"!", "s", "a", "v", "e", " ", "a", "1", " ", "B", "2", "c", "d", "e", "f">>,
     <<"!", "g", "e", "t", " ", "p", "a", "s", "s", "w", "o", "r", "d", " ", "N", "e", "t", "f", "l", "i", "x">>, <<"!", "g", "e", "t", " ", "p", "a", "s", "s", "w", "o", "r", "d", " ", "1", "2", "3">>, <<"!", "g", "e", "t", " ", "p", "a", "s", "s", "w", "o", "r", "d", " ", "a", "1">>,
     <<"!", "g", "e", "t", " ", "p", "a", "s", "s", "w", "o", "r", "d", " ", "G", "m", "a", "i", "l">>}

Command(U, C) ==
    /\ calls < MaxMessages
    /\ \E u \in U, command \in C :
        /\ db' = handle_command(db, now, u, command)
        /\ out' = command_reply(db, u, command)
        /\ last' = [op |-> "command", user_id |-> u, args |-> <<command>>,
                    valid |-> TRUE, existing |-> FALSE]
    /\ calls' = calls + 1
    /\ UNCHANGED <<now, latest, ticks, procs, lock, findings,
                   user_message_times>>

NextCmd ==
    \/ Categorize(Users, {<<"g", "m", "a", "i", "l", " ", "a", "b", "c", "d", "e", "f">>})
    \/ Command(Users, Commands)

SpecCmd == Init /\ [][NextCmd]_vars

\* the passwords the call recorded in `la` saved, each with the label it was
\* saved under and the password as the message has it: for !store L p (or
\* !save L p) the
\* second and third word of the message, for a categorized message the
\* Password findings of the call
SavedBy(la, found) ==
    IF la.op = "command"
       /\ (StartsAt(la.args[1], 1, <<"!", "s", "t", "o", "r", "e", " ">>) \/ StartsAt(la.args[1], 1, <<"!", "s", "a", "v", "e", " ">>))
       /\ Len(split(la.args[1])) = 3
    THEN {[label |-> split(la.args[1])[2], password |-> split(la.args[1])[3]]}
    ELSE IF la.op = "categorize"
    THEN {[label |-> found[k].label, password |-> found[k].password] :
             k \in {j \in 1..Len(found) : found[j].type = "password"}}
    ELSE {}

\* C22: store/get round trip for passwords.  When a call has saved a password
\* under label L for a user, by !store L <password> or by categorizing a
\* message, and the same user then sends !get password L, the reply shows
\* that password, exactly as the message had it.
C22_RoundTrip ==
    [][\A s \in SavedBy(last, findings) :
          (/\ last'.op = "command"
           /\ last'.user_id = last.user_id
           /\ last'.args[1] = <<"!", "g", "e", "t", " ", "p", "a", "s", "s", "w", "o", "r", "d", " ">> \o s.label)
              => out' = s.password]_vars

----------------------------------------------------------------------------
(* The stages of one categorize call (SpecCat) *)

\* the (label, username, password) that storage writes for finding cred
\* (username None for a Password), or nothing when storage rejects it
RowsOfFinding(cred) ==
    IF ~valid_finding(cred) THEN {}
    ELSE {[type |-> cred.type,
           label |-> _validate_label(cred.label).val,
           username |-> IF cred.type = "credential"
                        THEN _validate_username(cred.username).val ELSE None,
           password |-> _validate_password(cred.password).val]}

\* the rows of user_credentials and user_passwords that are in d2 and not in d
WrittenRows(d, d2) ==
    {[type |-> "credential", label |-> r.label, username |-> r.username,
      password |-> r.password] : r \in d2.user_credentials \ d.user_credentials}
    \cup {[type |-> "password", label |-> r.label, username |-> None,
           password |-> r.password] : r \in d2.user_passwords \ d.user_passwords}

\* the suppression rule for a call that turned database d into d2 and handed
\* `found` to storage, primary and convenient being what the two passes find
\* in the normalized content
Suppression(primary, convenient, found, d, d2) ==
    /\ found = IF primary = <<>> THEN convenient ELSE primary
    /\ primary # <<>> =>
          WrittenRows(d, d2) \subseteq
              UNION {RowsOfFinding(primary[k]) : k \in 1..Len(primary)}

\* what each of the two passes finds in the normalized content of each message
PassFindings ==
    [m \in Messages |->
        [primary |-> _detect_credentials_intelligently(_clean_text_content(m)),
         convenient |-> _detect_convenient_formats(_clean_text_content(m))]]

\* C23: suppression rule of stage 2.  In every categorize call on non-empty
\* content the findings handed to storage are those of the primary pass when
\* it found something, and those of the convenient-format pass when the
\* primary pass found nothing; when the primary pass found something, every
\* credential or password row the call writes comes from a primary finding.
C23_Suppression ==
    [][(last'.op = "categorize" /\ last'.valid /\ calls' = calls + 1) =>
          Suppression(PassFindings[last'.args[1]].primary,
                      PassFindings[last'.args[1]].convenient,
                      findings', db, db')]_vars

\* C23 witness: the call for "gmail john@email.com mypassword123" has stored
\* the two Password findings of the primary pass and no credential, although
\* the convenient formats match the content.
C23_Witness ==
    /\ last.op = "categorize"
    /\ last.args[1] = <<"g", "m", "a", "i", "l", " ", "j", "o", "h", "n", "@", "e", "m", "a", "i", "l", ".", "c", "o", "m", " ", "m", "y", "p", "a", "s", "s", "w", "o", "r", "d", "1", "2", "3">>
    /\ Len(findings) = 2
    /\ db.user_credentials = {}
    /\ Cardinality(db.user_passwords) = 2
    /\ PassFindings[last.args[1]].convenient # <<>>

----------------------------------------------------------------------------
(* SpecStages: messages in which the credential stage finds something,
   fails to store what it found, or finds nothing, next to an e-mail address
   and a link *)

NextStages == Categorize(Users, StageMessages)

SpecStages == Init /\ [][NextStages]_vars

\* each stage on its own, over the normalized content of each message
Stages ==
    [m \in StageMessages |->
        [content |-> _clean_text_content(m),
         primary |-> _detect_credentials_intelligently(_clean_text_content(m)),
         emails |-> emails_found(_clean_text_content(m)),
         urls |-> urls_found(_clean_text_content(m))]]

\* the values of `column` in the rows of user_id in table t
ValuesOf(d, t, user_id, column) == {r[column] : r \in {q \in d[t] : q.user_id = user_id}}

\* the e-mail, link and note stages of a call that turned d into d2, given
\* what each stage finds (s)
StagesRan(s, user_id, d, d2) ==
    LET text == strip(s.content)
        note_due == \/ s.emails = {} /\ s.urls = {} /\ s.primary = <<>>
                    \/ Len(text) > NoteThreshold
    IN  /\ ValuesOf(d2, "user_emails", user_id, "email")
             = ValuesOf(d, "user_emails", user_id, "email")
               \cup {_validate_email(e).val : e \in {x \in s.emails : _validate_email(x).ok}}
        /\ ValuesOf(d2, "user_links", user_id, "url")
             = ValuesOf(d, "user_links", user_id, "url")
               \cup {_validate_url(u).val : u \in {x \in s.urls : _validate_url(x).ok}}
        /\ IF note_due
           THEN _validate_content(text, MAX_CONTENT_LENGTH).val
                    \in ValuesOf(d2, "user_notes", user_id, "note")
           ELSE d2.user_notes = d.user_notes

\* C24: stage independence.  In every categorize call on non-empty content
\* the e-mail addresses and the links found in the full normalized text are
\* stored, and the note fallback decides on the full normalized text and
\* stores it, whatever the credential stage found and whether or not a write
\* of that stage was rejected.
C24_StageIndependence ==
    [][(last'.op = "categorize" /\ last'.valid /\ calls' = calls + 1) =>
          StagesRan(Stages[last'.args[1]], last'.user_id, db, db')]_vars

\* C24 witness: the password of the message was rejected by storage, and the
\* e-mail address, the link and the note of the same message are stored.
C24_Witness ==
    /\ last.op = "categorize"
    /\ last.args[1] = <<"p", "a", "s", "s", "w", "o", "r", "d", " ">> \o OverlongPassword \o <<" ", "m", "a", "i", "l", " ", "e", "@", "f", ".", "g", "h", " ", "h", "t", "t", "p", "s", ":", "/", "/", "a", "b", ".", "c", "d", "/", "e">>
    /\ \E k \in 1..Len(findings) : ~valid_finding(findings[k])
    /\ <<"e", "@", "f", ".", "g", "h">> \in ValuesOf(db, "user_emails", last.user_id, "email")
    /\ <<"h", "t", "t", "p", "s", ":", "/", "/", "a", "b", ".", "c", "d", "/", "e">> \in ValuesOf(db, "user_links", last.user_id, "url")
    /\ db.user_notes # {}

----------------------------------------------------------------------------
(* SpecFormats: messages written in the formats the heuristics recognise *)

NextFormats == Categorize(Users, FormatMessages)

SpecFormats == Init /\ [][NextFormats]_vars

\* C25: three-line block format.  After the categorize call for a message of
\* the three lines S, user: X, pass: Y in which the primary heuristics find
\* nothing, the user's credentials hold (S title-cased, X, Y).
C25_ThreeLineBlock ==
    \A b \in Blocks :
        (/\ last.op = "categorize"
         /\ last.args[1] = block(b)
         /\ Categorized[block(b)].potential_credentials = <<>>)
            => \E r \in db.user_credentials :
                   /\ r.user_id = last.user_id
                   /\ r.label = title(b.service)
                   /\ r.username = b.user
                   /\ r.password = b.pass

\* the label the context-adjacency rule gives for the indicator at words[i]:
\* the nearest preceding token that is not a stopword, title-cased, or
\* "Detected" when there is none
NearestLabel(words, i) ==
    LET preceding == {k \in 1..(i - 1) :
                        lower(words[k]) \notin {<<"f", "o", "r">>, <<"t", "h", "e">>, <<"m", "y">>, <<"i", "s">>, <<"t", "o">>,
                                                <<"a", "n", "d">>, <<"o", "r">>, <<":">>, <<"-">>}}
    IN  IF preceding = {} THEN Detected
        ELSE title(words[CHOOSE k \in preceding : \A j \in preceding : j <= k])

\* C26: label inference of the context-adjacency heuristic.  After the
\* categorize call for a message whose token "password" is followed by the
\* password Abcdef2!, the finding for that password has the label of the
\* nearest preceding token that is not a stopword, title-cased, and
\* "Detected" only when there is no such token.
C26_LabelInference ==
    (last.op = "categorize" /\ last.args[1] \in LabelMessages) =>
        LET words == split(last.args[1])
            i == CHOOSE k \in 1..Len(words) : words[k] = <<"p", "a", "s", "s", "w", "o", "r", "d">>
        IN  /\ \E k \in 1..Len(findings) : findings[k].password = <<"A", "b", "c", "d", "e", "f", "2", "!">>
            /\ \A k \in 1..Len(findings) :
                  findings[k].password = <<"A", "b", "c", "d", "e", "f", "2", "!">>
                      => findings[k].label = NearestLabel(words, i)

\* row, a row of a finding as storage writes it, is stored for user_id in d
StoredFor(d, user_id, row) ==
    IF row.type = "credential"
    THEN \E r \in d.user_credentials :
            /\ r.user_id = user_id
            /\ r.label = row.label
            /\ r.username = row.username
            /\ r.password = row.password
    ELSE \E r \in d.user_passwords :
            r.user_id = user_id /\ r.label = row.label /\ r.password = row.password

\* C27: no finding of a categorize call is overwritten by another finding of
\* the same call.  Right after a categorize call every Password and every
\* Credential finding of the call that storage accepts is stored for the user
\* under its own label.
C27_NoOverwrite ==
    last.op = "categorize" =>
        \A k \in 1..Len(findings) :
            \A row \in RowsOfFinding(findings[k]) : StoredFor(db, last.user_id, row)

----------------------------------------------------------------------------
(* The storage round trip, checked in Spec *)

\* field is within the length bound max_length and not empty
WithinBound(field, max_length) == Len(field) \in 1..max_length

\* C28: the storage round trip preserves the values.  Right after
\* store_password(u, L, p) with L and p within the length bounds,
\* get_password(u, L) returns exactly p; right after
\* store_credential(u, L, n, p) with L, n and p within the length bounds,
\* get_credential(u, L) returns exactly (n, p); the characters ; ' " and
\* backslash in L, n or p make no difference.
C28_RoundTrip ==
    /\ (/\ last.op = "store_password"
        /\ WithinBound(last.args[1], MAX_LABEL_LENGTH)
        /\ WithinBound(last.args[2], MAX_PASSWORD_LENGTH))
       => get_password(db, last.user_id, last.args[1]) = last.args[2]
    /\ (/\ last.op = "store_credential"
        /\ WithinBound(last.args[1], MAX_LABEL_LENGTH)
        /\ WithinBound(last.args[2], MAX_USERNAME_LENGTH)
        /\ WithinBound(last.args[3], MAX_PASSWORD_LENGTH))
       => \E r \in db.user_credentials :
            /\ r.user_id = last.user_id
            /\ r.label = last.args[1]
            /\ r.username = last.args[2]
            /\ r.password = last.args[3]

\* the links the step has written for user_id
NewLinks(user_id) ==
    {r \in db'.user_links \ db.user_links : r.user_id = user_id}

\* C29: a message that is exactly one URL written with http:// or https://
\* results in one Link record, whose url is the URL as written: the categorize
\* call writes no link with another url, and afterwards the URL as written is
\* among the user's links.  A message that is only an e-mail address results
\* in no Link record.
C29_OneLink ==
    [][/\ (last'.op = "categorize" /\ last'.args[1] \in UrlMessages)
            => /\ \A r \in NewLinks(last'.user_id) : r.url = last'.args[1]
               /\ \E r \in db'.user_links :
                      r.user_id = last'.user_id /\ r.url = last'.args[1]
       /\ (last'.op = "categorize" /\ last'.args[1] \in EmailMessages)
            => NewLinks(last'.user_id) = {}]_vars

----------------------------------------------------------------------------
(* SpecRate: direct messages against the clock *)

MaxRate == 11

RateSteps == {MINUTE \div 2}

\* the command of RateMessages
RateCommands == {m \in RateMessages : StartsAt(m, 1, <<"!">>)}

\* User 1 sends up to MaxRate messages; user 2 sends commands among the first
\* MaxMessages of them; the clock moves in half minutes, until a minute has
\* passed.
NextRate ==
    \/ OnMessage({1}, RateMessages, MaxRate)
    \/ OnMessage({2}, RateCommands, MaxMessages)
    \/ now < MINUTE /\ Tick(RateSteps)

SpecRate == Init /\ [][NextRate]_vars

\* the messages of user_id in the log d that were sent at a time in from..to
LoggedBetween(d, user_id, from, to) ==
    {r \in d.user_messages :
        r.user_id = user_id /\ from <= r.timestamp /\ r.timestamp <= to}

\* C30: the rate limiter's bound.  Every message of SpecRate that the limiter
\* lets through is logged with its time, so the log counts them.  (a) For
\* every user, every window of 60 seconds holds at most 10 accepted messages
\* (a window holds the most when it starts at an accepted message).  (b) A
\* message starting with "!" is accepted only if fewer than 5 messages of the
\* user were accepted in the 60 seconds before it.  (c) A refused message adds
\* no entry to the user's window, and changes neither storage nor the findings.
\* A step that counts a call is the handling of a message.
C30_RateLimit ==
    [][/\ \A u \in Users : \A r \in db'.user_messages :
            r.user_id = u =>
                Cardinality(LoggedBetween(db', u, r.timestamp, r.timestamp + 59)) <= 10
       /\ (calls' # calls /\ last'.op = "command")
            => Cardinality(LoggedBetween(db, last'.user_id, now - 59, now)) < 5
       /\ (calls' # calls /\ last'.op = "rate_limited")
            => /\ db' = db
               /\ findings' = findings
               /\ Len(user_message_times'[last'.user_id])
                      <= Len(user_message_times[last'.user_id])
               /\ \A i \in DOMAIN user_message_times'[last'.user_id] :
                      \E j \in DOMAIN user_message_times[last'.user_id] :
                          user_message_times[last'.user_id][j]
                              = user_message_times'[last'.user_id][i]]_vars

\* C30 witness: after the clock moved, a plain message was refused, and a
\* message sent at time 0 is still in the user's window.
C30_Witness ==
    /\ last.op = "rate_limited"
    /\ last.args[1] = <<"h", "i">>
    /\ now > 0
    /\ \E i \in DOMAIN user_message_times[last.user_id] :
           user_message_times[last.user_id][i] = 0

====
